---- MODULE Spec2Model ----
(***************************************************************************)
(* Portfolio project automation: the add command (add-project.js) and    *)
(* its library: github-fetcher.js, template-generator.js,                  *)
(* browse-updater.js, git-operations.js.                                   *)
(*                                                                         *)
(* Text is modelled as a sequence of strings.  A one-character string is   *)
(* that character; a longer string is a fixed piece of markup that the     *)
(* code never looks into (an opening tag, an svg icon, ...).               *)
(***************************************************************************)
EXTENDS Integers, Sequences, FiniteSets, TLC

VARIABLES
    pc,            \* position of the add command inside addProject
    githubUrl,     \* <github-url> argument
    options,       \* commander options of the run
    repoRef,       \* {owner, repo} returned by parseGitHubUrl
    repoData,      \* result of fetchRepoData
    readmeContent, \* result of parseReadme
    techStack,     \* result of detectTechStack
    projectNumber, \* label used for the new page
    projectData,   \* record assembled from the answers
    filename,      \* result of generateFilename
    projects,      \* files of <portfolio>/projects: filename -> content
    browse,        \* text of <portfolio>/browse.html
    browseContent, \* what updateBrowseHtml read from browse.html, <<>> before
    fsLog,         \* fs.writeFile calls issued, in order
    netLog,        \* GitHub API calls issued, in order
    gitLog,        \* git commands issued with their outcome, in order
    console,       \* messages printed, in order
    error,         \* message of the error that left addProject, <<>> if none
    exitCode,      \* process exit status, -1 while the process runs
    caught,        \* error addProject caught around gitCommitAndPush, <<>> if none
    now,           \* Date.now()
    arg,           \* argument of the library function under test
    ret            \* value returned by the library function under test

vars == <<pc, githubUrl, options, repoRef, repoData, readmeContent, techStack,
          projectNumber, projectData, filename, projects, browse, fsLog,
          netLog, gitLog, console, error, caught, exitCode, now, arg, ret,
          browseContent>>

runVars == <<githubUrl, options, repoRef, repoData, readmeContent, techStack,
             projectNumber, projectData, filename>>

(***************************************************************************)
(* Characters and strings                                                  *)
(***************************************************************************)
LowerAlpha == <<"a","b","c","d","e","f","g","h","i","j","k","l","m",
                "n","o","p","q","r","s","t","u","v","w","x","y","z">>
UpperAlpha == <<"A","B","C","D","E","F","G","H","I","J","K","L","M",
                "N","O","P","Q","R","S","T","U","V","W","X","Y","Z">>
DigitChar  == <<"0","1","2","3","4","5","6","7","8","9">>

Range(f) == {f[i] : i \in DOMAIN f}
Min(S) == CHOOSE x \in S : \A y \in S : x <= y
Max(S) == CHOOSE x \in S : \A y \in S : x >= y

IsDigit(c) == c \in Range(DigitChar)
IsLowerAlnum(c) == c \in Range(LowerAlpha) \/ IsDigit(c)

\* String.prototype.toLowerCase, one character
ToLowerChar(c) ==
    IF c \in Range(UpperAlpha)
    THEN LowerAlpha[CHOOSE i \in DOMAIN UpperAlpha : UpperAlpha[i] = c]
    ELSE c

ToLowerCase(s) == [i \in DOMAIN s |-> ToLowerChar(s[i])]

\* String(n) for a non-negative integer
RECURSIVE DigitsOf(_)
DigitsOf(n) ==
    IF n < 10 THEN <<DigitChar[n + 1]>>
    ELSE DigitsOf(n \div 10) \o <<DigitChar[(n % 10) + 1]>>

DigitValue(c) == (CHOOSE i \in DOMAIN DigitChar : DigitChar[i] = c) - 1

\* parseInt(ds, 10) for a non-empty string of digits
RECURSIVE ParseInt(_)
ParseInt(ds) ==
    IF Len(ds) = 0 THEN 0
    ELSE 10 * ParseInt(SubSeq(ds, 1, Len(ds) - 1)) + DigitValue(ds[Len(ds)])

\* a match that stops after one digit
FirstDigitOnly(s) ==
    LET D == {i \in DOMAIN s : IsDigit(s[i])} IN
    IF D = {} THEN <<>> ELSE <<s[Min(D)]>>

\* s.match(/\d+/): the first maximal run of digits, <<>> when there is none
FirstDigits(s) ==
    LET D == {i \in DOMAIN s : IsDigit(s[i])} IN
    IF D = {} THEN <<>>
    ELSE LET i == Min(D)
             j == Max({k \in i..Len(s) : \A m \in i..k : IsDigit(s[m])})
         IN  SubSeq(s, i, j)

StartsWith(s, p) == Len(s) >= Len(p) /\ SubSeq(s, 1, Len(p)) = p
EndsWith(s, p) == Len(s) >= Len(p) /\ SubSeq(s, Len(s) - Len(p) + 1, Len(s)) = p

Sp(n) == [i \in 1..n |-> " "]

(***************************************************************************)
(* template-generator.js                                                   *)
(***************************************************************************)
\* a slug whose ends are not trimmed
SlugifyUntrimmed(title) ==
    LET low == ToLowerCase(title)
        mark == [i \in DOMAIN low |->
                    IF IsLowerAlnum(low[i]) THEN low[i]
                    ELSE IF i = 1 \/ IsLowerAlnum(low[i - 1]) THEN "-"
                    ELSE ""]
    IN  SelectSeq(mark, LAMBDA c : c # "")

\* title.toLowerCase().replace(/[^a-z0-9]+/g, '-').replace(/^-|-$/g, '')
Slugify(title) ==
    LET low == ToLowerCase(title)
        mark == [i \in DOMAIN low |->
                    IF IsLowerAlnum(low[i]) THEN low[i]
                    ELSE IF i = 1 \/ IsLowerAlnum(low[i - 1]) THEN "-"
                    ELSE ""]
        dashed == SelectSeq(mark, LAMBDA c : c # "")
        s1 == IF Len(dashed) > 0 /\ dashed[1] = "-" THEN Tail(dashed) ELSE dashed
        s2 == IF Len(s1) > 0 /\ s1[Len(s1)] = "-"
              THEN SubSeq(s1, 1, Len(s1) - 1) ELSE s1
    IN  s2

\* a generator that always numbers the file by the clock
GenerateFilenameByClock(title, label, t) ==
    <<"d","a","y","-">> \o DigitsOf(t) \o <<"-">> \o Slugify(title)
        \o <<".","h","t","m","l">>

\* generateFilename(title, projectNumber) evaluated when Date.now() = t
GenerateFilename(title, label, t) ==
    LET numMatch == FirstDigits(label)
        num == IF numMatch # <<>> THEN numMatch ELSE DigitsOf(t)
    IN  <<"d","a","y","-">> \o num \o <<"-">> \o Slugify(title)
            \o <<".","h","t","m","l">>

Line(n, toks) == <<"\n">> \o Sp(n) \o toks

DefaultBadgeColor == "linear-gradient(135deg, #E50914 0%, #ff4d4d 100%)"
DefaultImageUrl == "https://images.unsplash.com/photo-1555066931-4365d14bab8c"

\* x || y on strings: the empty string is falsy
OrElse(x, y) == IF x # <<>> THEN x ELSE y

\* description?.slice(0, 100)
Slice100(d) == SubSeq(d, 1, IF Len(d) < 100 THEN Len(d) ELSE 100)

\* generateProjectCard(projectData, filename): the card snippet, line by line
GenerateProjectCard(pd, fname) ==
    LET badgeColor == OrElse(pd.badgeColor, <<DefaultBadgeColor>>)
        stats == IF pd.stats # <<>> THEN pd.stats
                 ELSE << IF Len(pd.techStack) >= 1 THEN pd.techStack[1].name ELSE "Modern",
                         IF Len(pd.techStack) >= 2 THEN pd.techStack[2].name ELSE "Stack",
                         "Open Source" >>
        youtube == IF pd.youtubeUrl # <<>>
                   THEN Line(28, <<"<a href=\"">> \o pd.youtubeUrl \o <<"\" class=\"card-link\">">>)
                        \o Line(32, <<"<svg youtube/>">>)
                        \o Line(32, <<"Demo">>)
                        \o Line(28, <<"</a>">>)
                   ELSE <<>>
        linkedin == IF pd.linkedinUrl # <<>>
                    THEN Line(28, <<"<a href=\"">> \o pd.linkedinUrl \o <<"\" class=\"card-link linkedin\">">>)
                         \o Line(32, <<"<svg linkedin/>">>)
                         \o Line(32, <<"Post">>)
                         \o Line(28, <<"</a>">>)
                    ELSE <<>>
    IN  Line(16, <<"<!-- ">> \o pd.projectNumber \o <<" Card - ">> \o pd.title \o <<" -->">>)
     \o Line(16, <<"<div class=\"daily-card featured\" onclick=\"window.location.href='projects/">>
                    \o fname \o <<"'\">">>)
     \o Line(20, <<"<div class=\"daily-card-image\">">>)
     \o Line(24, <<"<img src=\"">> \o OrElse(pd.imageUrl, <<DefaultImageUrl>>)
                    \o <<"\" alt=\"">> \o pd.title \o <<"\">">>)
     \o Line(24, <<"<div class=\"day-badge new\" style=\"background: ">> \o badgeColor \o <<";\">">>
                    \o pd.projectNumber \o <<"</div>">>)
     \o Line(24, <<"<div class=\"new-ribbon\">", "NEW", "</div>">>)
     \o Line(24, <<"<div class=\"card-gradient\">", "</div>">>)
     \o Line(20, <<"</div>">>)
     \o Line(20, <<"<div class=\"daily-card-content\">">>)
     \o Line(24, <<"<h3>">> \o pd.title \o <<"</h3>">>)
     \o Line(24, <<"<p class=\"card-description\">">>
                    \o OrElse(pd.tagline, Slice100(pd.description)) \o <<"</p>">>)
     \o Line(24, <<"<div class=\"card-stats\">">>)
     \o Line(28, <<"<span class=\"stat-item\"><strong>", stats[1], "</strong></span>">>)
     \o Line(28, <<"<span class=\"stat-item\"><strong>", stats[2], "</strong></span>">>)
     \o Line(28, <<"<span class=\"stat-item\"><strong>", stats[3], "</strong></span>">>)
     \o Line(24, <<"</div>">>)
     \o Line(24, <<"<div class=\"card-links\">">>)
     \o Line(28, <<"<a href=\"">> \o pd.githubUrl \o <<"\" class=\"card-link github\">">>)
     \o Line(32, <<"<svg github/>">>)
     \o Line(32, <<"GitHub">>)
     \o Line(28, <<"</a>">>) \o youtube \o linkedin
     \o Line(24, <<"</div>">>)
     \o Line(20, <<"</div>">>)
     \o Line(16, <<"</div>">>)

(***************************************************************************)
(* browse-updater.js                                                       *)
(***************************************************************************)
ProfessionalExperience == "<!-- Professional Experience -->"

\* \s of a JavaScript regular expression
IsWs(c) == c \in {" ", "\n", "\t", "\r"}

At(s, i) == IF i >= 1 /\ i <= Len(s) THEN s[i] ELSE ""

\* where \s* ends when matching starts at i
SkipWs(s, i) == Min({j \in i..(Len(s) + 1) : ~IsWs(At(s, j))})

\* \s*\n\s* between i and the next non-blank position j
HasNewline(s, i, j) == \E k \in i..(j - 1) : s[k] = "\n"

\* insertPattern anchored at i: the index just after the match, 0 if none
\*   /(<\/div>\s*<\/div>\s*<\/div>\s*<\/section>\s*\n\s*<!-- Professional Experience -->)/
InsertPatternEnd(s, i) ==
    IF At(s, i) # "</div>" THEN 0
    ELSE LET d2 == SkipWs(s, i + 1) IN
         IF At(s, d2) # "</div>" THEN 0
         ELSE LET d3 == SkipWs(s, d2 + 1) IN
              IF At(s, d3) # "</div>" THEN 0
              ELSE LET sec == SkipWs(s, d3 + 1) IN
                   IF At(s, sec) # "</section>" THEN 0
                   ELSE LET cm == SkipWs(s, sec + 1) IN
                        IF HasNewline(s, sec + 1, cm) /\ At(s, cm) = ProfessionalExperience
                        THEN cm + 1 ELSE 0

\* fallbackPattern anchored at i
\*   /(    <\/section>\s*\n\s*<!-- Professional Experience -->)/
FallbackPatternEnd(s, i) ==
    IF \E k \in i..(i + 3) : At(s, k) # " " THEN 0
    ELSE IF At(s, i + 4) # "</section>" THEN 0
    ELSE LET cm == SkipWs(s, i + 5) IN
         IF HasNewline(s, i + 5, cm) /\ At(s, cm) = ProfessionalExperience
         THEN cm + 1 ELSE 0

\* the leftmost match of a pattern: [from, to) or from = 0
FirstMatch(s, pattern) ==
    LET PatternEnd(i) == IF pattern = "insertPattern" THEN InsertPatternEnd(s, i)
                         ELSE FallbackPatternEnd(s, i)
        M == {i \in DOMAIN s : PatternEnd(i) # 0}
    IN  IF M = {} THEN [from |-> 0, to |-> 0]
        ELSE [from |-> Min(M), to |-> PatternEnd(Min(M))]

\* the replacement text of String.prototype.replace: $$, $& and $1 are
\* substituted (the patterns have one group, which is the whole match); the
\* two patterns that insert the text before and after the match need a
\* quote character, which no text of this model holds
RECURSIVE GetSubstitution(_, _)
GetSubstitution(matched, repl) ==
    LET P == {i \in 1..(Len(repl) - 1) :
                 repl[i] = "$" /\ repl[i + 1] \in {"$", "&", "1"}} IN
    IF P = {} THEN repl
    ELSE LET p == Min(P)
             sub == IF repl[p + 1] = "$" THEN <<"$">> ELSE matched
         IN  SubSeq(repl, 1, p - 1) \o sub
               \o GetSubstitution(matched, SubSeq(repl, p + 2, Len(repl)))

\* s.replace(pattern, repl) for a pattern that matches at m
Replace(s, m, repl) ==
    LET matched == SubSeq(s, m.from, m.to - 1)
        before == SubSeq(s, 1, m.from - 1)
        after == SubSeq(s, m.to, Len(s))
    IN  before \o GetSubstitution(matched, repl) \o after

\* the template literal both branches of updateBrowseHtml pass to replace
Replacement(cardHtml) ==
    cardHtml \o Line(12, <<"</div>">>) \o Line(8, <<"</div>">>)
             \o Line(4, <<"</section>">>) \o <<"\n">>
             \o Line(4, <<ProfessionalExperience>>)

InsertionPointError == <<"Could not find insertion point in browse.html">>

\* updateBrowseHtml appending the card to the page when no pattern matches
UpdateBrowseContentAppending(html, pd, fname) ==
    LET cardHtml == GenerateProjectCard(pd, fname)
        ins == FirstMatch(html, "insertPattern")
        fb == FirstMatch(html, "fallbackPattern")
        m == IF ins.from # 0 THEN ins ELSE fb
    IN  IF m.from # 0
        THEN [thrown |-> <<>>, content |-> Replace(html, m, Replacement(cardHtml))]
        ELSE [thrown |-> <<>>, content |-> html \o cardHtml]

\* updateBrowseHtml up to its writeFile: the text it would write, or the error
UpdateBrowseContent(html, pd, fname) ==
    LET cardHtml == GenerateProjectCard(pd, fname)
        ins == FirstMatch(html, "insertPattern")
        fb == FirstMatch(html, "fallbackPattern")
    IN  IF ins.from = 0
        THEN IF fb.from # 0
             THEN [thrown |-> <<>>,
                   content |-> Replace(html, fb, Replacement(cardHtml))]
             ELSE [thrown |-> InsertionPointError, content |-> html]
        ELSE [thrown |-> <<>>,
              content |-> Replace(html, ins, Replacement(cardHtml))]

\* the highest number in use returned as it is
GetNextProjectNumberWithoutIncrement(dir) ==
    LET files == IF dir.ok THEN dir.v ELSE {}
        named == {f \in files : StartsWith(f, <<"d","a","y","-">>)
                                  /\ Len(f) >= 5 /\ IsDigit(f[5])}
    IN  Max({ParseInt(FirstDigits(f)) : f \in named} \cup {1})

\* getNextProjectNumber over the names found in the projects directory
GetNextProjectNumber(dir) ==
    LET files == IF dir.ok THEN dir.v ELSE {}
        projectFiles == {f \in files : StartsWith(f, <<"d","a","y","-">>)
                                       /\ EndsWith(f, <<".","h","t","m","l">>)}
        \* file.match(/day-(\d+)/): the first "day-" that digits follow
        DayDigits(f) ==
            LET S == {i \in 1..(Len(f) - 4) :
                         SubSeq(f, i, i + 3) = <<"d","a","y","-">> /\ IsDigit(f[i + 4])} IN
            IF S = {} THEN <<>>
            ELSE FirstDigits(SubSeq(f, Min(S) + 4, Len(f)))
        nums == {ParseInt(DayDigits(f)) : f \in {g \in projectFiles : DayDigits(g) # <<>>}}
    IN  IF ~dir.ok THEN 1 ELSE Max(nums \cup {0}) + 1

(***************************************************************************)
(* github-fetcher.js                                                       *)
(***************************************************************************)
\* [^\/]+ starting at i: the index after the longest run without a slash
NoSlashEnd(s, i) == Min({j \in i..(Len(s) + 1) : At(s, j) \in {"/", ""}})

\* /github\.com<sep>([^\/]+)\/([^\/]+)/ anchored at i: the two groups, or
\* ok = FALSE.  The first group is greedy and must be followed by a slash,
\* so it is the whole run up to the next slash.
UrlPatternAt(s, i, sep) ==
    LET o1 == i + 2
        o2 == NoSlashEnd(s, o1)
        r1 == o2 + 1
        r2 == NoSlashEnd(s, r1)
    IN  IF /\ At(s, i) = "github.com" /\ At(s, i + 1) = sep
           /\ o2 > o1 /\ At(s, o2) = "/" /\ r2 > r1
        THEN [ok |-> TRUE, owner |-> SubSeq(s, o1, o2 - 1), repo |-> SubSeq(s, r1, r2 - 1)]
        ELSE [ok |-> FALSE, owner |-> <<>>, repo |-> <<>>]

\* url.match(pattern): the leftmost match
UrlMatch(s, sep) ==
    LET M == {i \in DOMAIN s : UrlPatternAt(s, i, sep).ok} IN
    IF M = {} THEN [ok |-> FALSE, owner |-> <<>>, repo |-> <<>>]
    ELSE UrlPatternAt(s, Min(M), sep)

\* a parser that leaves the .git suffix on
StripGitNever(repo) == repo

\* repo.replace(/\.git$/, '')
StripGit(repo) ==
    IF Len(repo) > 0 /\ repo[Len(repo)] = ".git"
    THEN SubSeq(repo, 1, Len(repo) - 1) ELSE repo

InvalidGitHubUrl == <<"Invalid GitHub URL: ">>

\* parseGitHubUrl(url): patterns tried in order, the first that matches wins
ParseGitHubUrl(url) ==
    LET m1 == UrlMatch(url, "/")
        m2 == UrlMatch(url, ":")
    IN  IF m1.ok
        THEN [thrown |-> <<>>, owner |-> m1.owner, repo |-> StripGit(m1.repo)]
        ELSE IF m2.ok
        THEN [thrown |-> <<>>, owner |-> m2.owner, repo |-> StripGit(m2.repo)]
        ELSE [thrown |-> InvalidGitHubUrl \o url, owner |-> <<>>, repo |-> <<>>]

\* an absent (null) value and a present one
Absent == [ok |-> FALSE, v |-> <<>>]
Present(x) == [ok |-> TRUE, v |-> x]

NoRepoData ==
    [name |-> "", description |-> <<>>, url |-> <<>>, topics |-> <<>>,
     languages |-> <<>>, readme |-> Absent, packageJson |-> [ok |-> FALSE, v |-> {}],
     requirements |-> Absent]

RepositoryNotFound == <<"Not Found">>
LanguagesRequestFailed == <<"listLanguages request failed">>

ApiCall(call, ok) == [call |-> call, ok |-> ok]

\* fetchRepoData(owner, repo) against the repository remote when the five
\* GitHub calls end as up says (TRUE: the call returns, FALSE: it rejects).
\* calls: the requests issued, in order, with how each ended.
FetchRepoData(remote, up) ==
    IF ~up.get
    THEN [thrown |-> RepositoryNotFound, data |-> NoRepoData,
          calls |-> <<ApiCall("repos.get", FALSE)>>]
    ELSE LET readme == IF up.readme THEN remote.readme ELSE Absent
             packageJson == IF up.packageJson THEN remote.packageJson
                            ELSE [ok |-> FALSE, v |-> {}]
             requirements == IF up.requirements THEN remote.requirements ELSE Absent
             calls == << ApiCall("repos.get", TRUE),
                         ApiCall("repos.getReadme", up.readme),
                         ApiCall("repos.getContent package.json", up.packageJson),
                         ApiCall("repos.getContent requirements.txt", up.requirements),
                         ApiCall("repos.listLanguages", up.languages) >>
         IN  IF ~up.languages
             THEN [thrown |-> LanguagesRequestFailed, data |-> NoRepoData, calls |-> calls]
             ELSE [thrown |-> <<>>,
                   data |-> [name |-> remote.name,
                             description |-> remote.description,
                             url |-> remote.url,
                             topics |-> remote.topics,
                             languages |-> remote.languages,
                             readme |-> readme,
                             packageJson |-> packageJson,
                             requirements |-> requirements],
                   calls |-> calls]

Badge(abbr, name, description) == [abbr |-> abbr, name |-> name, description |-> description]

\* techMappings: the badge a key maps to, by own property ...
TechMappings ==
    [k \in {"JavaScript", "TypeScript", "Python", "Go", "Rust", "HTML", "CSS",
            "react", "nextjs", "nodejs", "docker", "aws", "tensorflow", "pytorch",
            "openai", "langchain"} |->
        CASE k = "JavaScript" -> Badge("JS", "JavaScript", "Core language")
          [] k = "TypeScript" -> Badge("TS", "TypeScript", "Type-safe JavaScript")
          [] k = "Python"     -> Badge("Py", "Python", "Core language")
          [] k = "Go"         -> Badge("Go", "Golang", "Systems programming")
          [] k = "Rust"       -> Badge("Rs", "Rust", "Systems programming")
          [] k = "HTML"       -> Badge("HTML", "HTML5", "Markup language")
          [] k = "CSS"        -> Badge("CSS", "CSS3", "Styling")
          [] k = "react"      -> Badge("React", "React", "UI library")
          [] k = "nextjs"     -> Badge("Next", "Next.js", "React framework")
          [] k = "nodejs"     -> Badge("Node", "Node.js", "Runtime")
          [] k = "docker"     -> Badge("Docker", "Docker", "Containerization")
          [] k = "aws"        -> Badge("AWS", "AWS", "Cloud platform")
          [] k = "tensorflow" -> Badge("TF", "TensorFlow", "ML framework")
          [] k = "pytorch"    -> Badge("PT", "PyTorch", "ML framework")
          [] k = "openai"     -> Badge("GPT", "OpenAI", "AI/LLM")
          [] OTHER            -> Badge("LC", "LangChain", "LLM framework")]

\* ... or inherited: techMappings is an object literal, so the key
\* "constructor" reads Object.prototype.constructor, a function named Object
HasMapping(key) == key \in DOMAIN TechMappings \/ key = "constructor"
Mapping(key) == IF key \in DOMAIN TechMappings THEN TechMappings[key]
                ELSE Badge("", "Object", "")

\* toLowerCase of the names the detector compares
LowerName(n) ==
    CASE n = "JavaScript" -> "javascript" [] n = "TypeScript" -> "typescript"
      [] n = "Python" -> "python"         [] n = "Golang" -> "golang"
      [] n = "Rust" -> "rust"             [] n = "HTML5" -> "html5"
      [] n = "CSS3" -> "css3"             [] n = "React" -> "react"
      [] n = "Next.js" -> "next.js"       [] n = "Node.js" -> "node.js"
      [] n = "Docker" -> "docker"         [] n = "AWS" -> "aws"
      [] n = "TensorFlow" -> "tensorflow" [] n = "PyTorch" -> "pytorch"
      [] n = "OpenAI" -> "openai"         [] n = "LangChain" -> "langchain"
      [] n = "Object" -> "object"         [] n = "REACT" -> "react"
      [] n = "TorchVision" -> "torchvision"
      [] OTHER -> n

\* a detector that never finds a badge on the stack
FindByNameNever(stack, key) == FALSE

\* techStack.find(t => t.name.toLowerCase() === techMappings[key].name.toLowerCase())
FindByName(stack, key) ==
    \E i \in DOMAIN stack : LowerName(stack[i].name) = LowerName(Mapping(key).name)

\* the language loop: a mapped language is pushed without a look at the stack
RECURSIVE PushLanguages(_, _)
PushLanguages(stack, langs) ==
    IF langs = <<>> THEN stack
    ELSE PushLanguages(IF HasMapping(Head(langs)) THEN Append(stack, Mapping(Head(langs)))
                       ELSE stack,
                       Tail(langs))

\* the topic, dependency and requirement loops: a mapped key is pushed unless
\* a badge of the same lower-cased name is on the stack
RECURSIVE PushUnlessFound(_, _)
PushUnlessFound(stack, keys) ==
    IF keys = <<>> THEN stack
    ELSE PushUnlessFound(IF HasMapping(Head(keys)) /\ ~FindByName(stack, Head(keys))
                         THEN Append(stack, Mapping(Head(keys))) ELSE stack,
                         Tail(keys))

\* depMappings and pyMappings, in the order Object.entries walks them
DepMappings == << <<"react", "react">>, <<"next", "nextjs">>,
                  <<"@tensorflow/tfjs", "tensorflow">>, <<"openai", "openai">>,
                  <<"langchain", "langchain">> >>
PyMappings == << <<"tensorflow", "tensorflow">>, <<"torch", "pytorch">>,
                 <<"openai", "openai">>, <<"langchain", "langchain">> >>

\* line.includes(pkg) for the lower-cased lines a requirements file of the model holds
LineIncludes(line, pkg) ==
    \/ line = pkg
    \/ line = "torchvision" /\ pkg = "torch"
    \/ line = "tensorflow-gpu" /\ pkg = "tensorflow"
    \/ line = "langchain-openai" /\ pkg \in {"langchain", "openai"}

\* reqLower.includes(pkg): pkg occurs somewhere in the lower-cased file
ReqIncludes(requirements, pkg) ==
    \E i \in DOMAIN requirements : LineIncludes(LowerName(requirements[i]), pkg)

\* a slice that keeps one element too many
TakeFirstAndOne(s, n) == SubSeq(s, 1, IF Len(s) < n + 1 THEN Len(s) ELSE n + 1)

\* s.slice(0, n)
TakeFirst(s, n) == SubSeq(s, 1, IF Len(s) < n THEN Len(s) ELSE n)

Keys(pairs, wanted) ==
    LET hit == SelectSeq(pairs, LAMBDA e : e[1] \in wanted) IN
    [i \in DOMAIN hit |-> hit[i][2]]

\* detectTechStack(repoData)
DetectTechStack(rd) ==
    LET topLangs == TakeFirst([i \in DOMAIN rd.languages |-> rd.languages[i].name], 3)
        s1 == PushLanguages(<<>>, topLangs)
        s2 == PushUnlessFound(s1, [i \in DOMAIN rd.topics |-> LowerName(rd.topics[i])])
        s3 == IF rd.packageJson.ok
              THEN PushUnlessFound(s2, Keys(DepMappings, rd.packageJson.v))
              ELSE s2
        s4 == IF rd.requirements.ok /\ rd.requirements.v # <<>>
              THEN PushUnlessFound(s3, Keys(PyMappings,
                       {p \in {e[1] : e \in Range(PyMappings)} :
                           ReqIncludes(rd.requirements.v, p)}))
              ELSE s3
    IN  TakeFirst(s4, 4)

(***************************************************************************)
(* parseReadme.  A README is readme.split("\n"): a sequence of lines, the  *)
(* last of which is empty exactly when the text ends with a newline.  A    *)
(* line is [kind, text, len]: kind tells what the regular expressions see  *)
(* in it, text is the line without its marker, len its length.             *)
(*   "blank"      the empty line                                           *)
(*   "h1"         # Some title                                             *)
(*   "h1features" # Features             (one #, matches the features re)  *)
(*   "features"   ## Features            (also Key Features, What it does) *)
(*   "install"    ## Installation        (also Getting Started, ...)       *)
(*   "h2"         ## any other heading                                     *)
(*   "bullet"     - text  or  * text                                       *)
(*   "fence"      a code fence, with or without a language                 *)
(*   "text"       anything else                                            *)
(***************************************************************************)
ReadmeLine(kind, text, len) == [kind |-> kind, text |-> text, len |-> len]

\* the line starts with ##, which is what (?=\n##) looks for
StartsWithTwoHashes(l) == l.kind \in {"features", "install", "h2"}

IsSectionHeading(l, section) ==
    \/ section = "features" /\ l.kind \in {"features", "h1features"}
    \/ section = "install" /\ l.kind = "install"

\* the lines j at whose end ([\s\S]*?)(?=\n##|\n$) can stop, for the heading at i
SectionStops(lines, i) ==
    {j \in (i + 1)..(Len(lines) - 1) :
        \/ StartsWithTwoHashes(lines[j + 1])
        \/ j + 1 = Len(lines) /\ lines[j + 1].kind = "blank"}

\* readme.match(/##?\s*(?:<headings>)[^\n]*\n([\s\S]*?)(?=\n##|\n$)/i): group 1
SectionMatch(lines, section) ==
    LET C == {i \in DOMAIN lines :
                 IsSectionHeading(lines[i], section) /\ SectionStops(lines, i) # {}} IN
    IF C = {} THEN [ok |-> FALSE, v |-> <<>>]
    ELSE [ok |-> TRUE, v |-> SubSeq(lines, Min(C) + 1, Min(SectionStops(lines, Min(C))))]

\* the fenced blocks the code-block expression finds: fences pair up in order
CodeBlocks(lines) ==
    LET F == SelectSeq([i \in DOMAIN lines |-> IF lines[i].kind = "fence" THEN i ELSE 0],
                       LAMBDA i : i # 0)
    IN  [k \in 1..(Len(F) \div 2) |-> SubSeq(lines, F[2 * k - 1] + 1, F[2 * k] - 1)]

\* the block without its fences, trimmed, as the texts of its lines
TrimBlock(block) ==
    LET N == {i \in DOMAIN block : block[i].kind # "blank"} IN
    IF N = {} THEN <<>>
    ELSE LET b == SubSeq(block, Min(N), Max(N)) IN [i \in DOMAIN b |-> b[i].text]

RECURSIVE TextLength(_)
TextLength(lines) ==
    IF lines = <<>> THEN 0
    ELSE Head(lines).len + (IF Len(lines) > 1 THEN 1 ELSE 0) + TextLength(Tail(lines))

\* readme.split(/\n\n+/): the maximal runs of lines without an empty line
Paragraphs(lines) ==
    LET starts == SelectSeq([i \in DOMAIN lines |->
                                IF lines[i].kind # "blank"
                                   /\ (i = 1 \/ lines[i - 1].kind = "blank")
                                THEN i ELSE 0],
                            LAMBDA i : i # 0)
        EndOf(i) == Max({j \in i..Len(lines) : \A k \in i..j : lines[k].kind # "blank"})
    IN  [p \in DOMAIN starts |-> SubSeq(lines, starts[p], EndOf(starts[p]))]

\* para.replace(/^#+\s+.+\n?/, '').trim(): a leading heading line is dropped
Cleaned(para) ==
    IF para # <<>> /\ Head(para).kind \in {"h1", "h1features", "features", "install", "h2"}
    THEN Tail(para) ELSE para

IsDescription(cleaned) ==
    /\ cleaned # <<>>
    /\ Head(cleaned).kind \notin {"h1", "h1features", "features", "install", "h2", "fence"}
    /\ TextLength(cleaned) > 50

\* a parser that makes up a feature and a step for what it does not find
ParseReadmeWithSamples(readme) ==
    [defined |-> TRUE, features |-> <<"Sample feature">>,
     installation |-> << <<"npm install">> >>, description |-> <<>>]

\* parseReadme(readme); the description is kept as the texts of its lines
\* (joined by spaces in the code; the READMEs here are shorter than the
\* 500 characters the code cuts it to)
ParseReadme(readme) ==
    IF ~readme.ok \/ readme.v = <<>>
    THEN [defined |-> FALSE, features |-> <<>>, installation |-> <<>>, description |-> <<>>]
    ELSE LET lines == readme.v
             paras == Paragraphs(lines)
             D == {p \in DOMAIN paras : IsDescription(Cleaned(paras[p]))}
             first == Cleaned(paras[Min(D)])
             featuresMatch == SectionMatch(lines, "features")
             bullets == SelectSeq(featuresMatch.v, LAMBDA l : l.kind = "bullet")
             installMatch == SectionMatch(lines, "install")
             commands == SelectSeq([k \in DOMAIN CodeBlocks(installMatch.v) |->
                                       TrimBlock(CodeBlocks(installMatch.v)[k])],
                                   LAMBDA c : c # <<>>)
         IN  [defined |-> TRUE,
              features |-> [i \in DOMAIN TakeFirst(bullets, 6) |-> bullets[i].text],
              installation |-> commands,
              description |-> IF D = {} THEN <<>>
                              ELSE [i \in DOMAIN first |-> first[i].text]]

(***************************************************************************)
(* git-operations.js                                                       *)
(***************************************************************************)
\* filesToAdd
FilesToAdd(fname) == << <<"projects/">> \o fname, <<"browse.html">> >>

GitCmd(cmd, what, ok) == [cmd |-> cmd, what |-> what, ok |-> ok]

CommitFailed == <<"git commit failed">>
PushFailed(branch) == <<"git push failed: ", branch>>

(***************************************************************************)
(* The environment of a run                                                *)
(***************************************************************************)
Readme ==
    << ReadmeLine("h1", "My App", 8),
       ReadmeLine("blank", "", 0),
       ReadmeLine("text", "A tool that does a number of useful things for its users.", 57),
       ReadmeLine("blank", "", 0),
       ReadmeLine("features", "Features", 11),
       ReadmeLine("blank", "", 0),
       ReadmeLine("bullet", "Fast", 6),
       ReadmeLine("bullet", "Small", 7),
       ReadmeLine("blank", "", 0),
       ReadmeLine("install", "Installation", 15),
       ReadmeLine("blank", "", 0),
       ReadmeLine("fence", "bash", 7),
       ReadmeLine("text", "npm install", 11),
       ReadmeLine("fence", "", 3),
       ReadmeLine("blank", "", 0) >>

\* the repository the URL names, as the GitHub API describes it
Remote ==
    [name |-> "my-app",
     description |-> <<"A tool">>,
     url |-> <<"https://github.com/a/b">>,
     topics |-> <<"react">>,
     languages |-> << [name |-> "JavaScript", bytes |-> 900],
                      [name |-> "HTML", bytes |-> 100] >>,
     readme |-> Present(Readme),
     packageJson |-> [ok |-> TRUE, v |-> {"react", "next"}],
     requirements |-> Present(<<"openai">>)]

Https == <<"https:", "/", "/">>

Urls ==
    { Https \o <<"github.com", "/", "a", "/", "b", ".git">>,
      <<"git@", "github.com", ":", "a", "/", "b">>,
      Https \o <<"gitlab.com", "/", "a", "/", "b">> }

ProjectLabel == <<"P","r","o","j","e","c","t"," ">>

NumberOptions == { <<>>, ProjectLabel \o <<"7">>, <<"S","e","v","e","n">> }

Options ==
    [number : NumberOptions, tagline : BOOLEAN, youtube : BOOLEAN,
     linkedin : BOOLEAN, push : BOOLEAN, dryRun : BOOLEAN]

Titles == { <<"M","y"," ","A","p","p">>, <<"C","$","&">> }

\* a card of the gallery page as it is before the run
ExistingCard ==
    Line(16, <<"<!-- Project 1 Card - First -->">>)
 \o Line(16, <<"<div class=\"daily-card\" onclick=\"window.location.href='projects/day-1-first.html'\">">>)
 \o Line(20, <<"<div class=\"daily-card-content\">">>)
 \o Line(24, <<"<h3>", "First", "</h3>">>)
 \o Line(20, <<"</div>">>)
 \o Line(16, <<"</div>">>)

PageHead ==
    <<"<html>", "\n">> \o Sp(4) \o <<"<section id=\"daily-shipping\">">>
 \o Line(8, <<"<div class=\"container\">">>)
 \o Line(12, <<"<div class=\"daily-grid\">">>)

PageTail == Line(4, <<"<section id=\"experience\">", "</section>", "\n", "</html>", "\n">>)

\* the layout the comment in updateBrowseHtml describes
BrowsePrimary ==
    PageHead \o ExistingCard
 \o Line(12, <<"</div>">>) \o Line(8, <<"</div>">>) \o Line(4, <<"</section>">>)
 \o <<"\n">> \o Line(4, <<ProfessionalExperience>>) \o PageTail

\* the same page indented with tabs, the section closed on one line
BrowseCompact ==
    PageHead \o ExistingCard
 \o <<"\n", "\t", "</div>", "</div>", "</section>", "\n", ProfessionalExperience>> \o PageTail

\* a page whose grid is closed by a list: only the fallback pattern matches
BrowseFallback ==
    <<"<html>", "\n">> \o Sp(4) \o <<"<section id=\"daily-shipping\">">>
 \o Line(8, <<"<ul>">>) \o ExistingCard \o Line(8, <<"</ul>">>)
 \o Line(4, <<"</section>">>) \o <<"\n">> \o Line(4, <<ProfessionalExperience>>) \o PageTail

\* a page without the comment: neither pattern matches
BrowseNoAnchor ==
    PageHead \o ExistingCard
 \o Line(12, <<"</div>">>) \o Line(8, <<"</div>">>) \o Line(4, <<"</section>">>)
 \o <<"\n">> \o Line(4, <<"<!-- Experience -->">>) \o PageTail

BrowsePages == {BrowsePrimary, BrowseCompact, BrowseFallback, BrowseNoAnchor}

Page(title, label) == <<"<html>", "<h1>">> \o title \o <<"</h1>">> \o label \o <<"</html>">>

ExistingProjects ==
    [f \in { <<"d","a","y","-","1","-","f","i","r","s","t",".","h","t","m","l">> } |->
        Page(<<"F","i","r","s","t">>, ProjectLabel \o <<"1">>)]

(***************************************************************************)
(* add-project.js: the add command                                         *)
(***************************************************************************)
NoOptions ==
    [number |-> <<>>, tagline |-> FALSE, youtube |-> FALSE, linkedin |-> FALSE,
     push |-> TRUE, dryRun |-> FALSE]

NoReadmeContent ==
    [defined |-> FALSE, features |-> <<>>, installation |-> <<>>, description |-> <<>>]

NoProjectData ==
    [projectNumber |-> <<>>, title |-> <<>>, tagline |-> <<>>, description |-> <<>>,
     githubUrl |-> <<>>, youtubeUrl |-> <<>>, linkedinUrl |-> <<>>, imageUrl |-> <<>>,
     techStack |-> <<>>, features |-> <<>>, installSteps |-> <<>>, stats |-> <<>>,
     badgeColor |-> <<>>]

NoCall == [f |-> "", in |-> <<>>]
NotReturned == [done |-> FALSE, v |-> <<>>]
Returned(v) == [done |-> TRUE, v |-> v]

\* no library function is called on its own
NoTest == arg = NoCall /\ ret = NotReturned

\* the portfolio checkout and the process before the command runs
Installed ==
    /\ pc = "idle"
    /\ githubUrl = <<>>
    /\ options = NoOptions
    /\ repoRef = [owner |-> <<>>, repo |-> <<>>]
    /\ repoData = NoRepoData
    /\ readmeContent = NoReadmeContent
    /\ techStack = <<>>
    /\ projectNumber = <<>>
    /\ projectData = NoProjectData
    /\ filename = <<>>
    /\ projects = ExistingProjects
    /\ browse \in BrowsePages
    /\ browseContent = <<>>
    /\ fsLog = <<>>
    /\ netLog = <<>>
    /\ gitLog = <<>>
    /\ console = <<>>
    /\ error = <<>>
    /\ caught = <<>>
    /\ exitCode = -1
    /\ now = 1000

Init == Installed /\ NoTest

\* program.command('add <github-url>') ... .action: the command is invoked
Add(url, opts) ==
    /\ pc = "idle"
    /\ githubUrl' = url
    /\ options' = opts
    /\ console' = Append(console, "Portfolio Project Automation")
    /\ pc' = "parse"
    /\ UNCHANGED <<repoRef, repoData, readmeContent, techStack, projectNumber,
                   projectData, filename, projects, browse, fsLog, netLog, gitLog,
                   error, caught, exitCode, now, arg, ret, browseContent>>

\* a first stage that reports a malformed reference and lets the run go on
ParseUrlGoingOn ==
    /\ pc = "parse"
    /\ LET r == ParseGitHubUrl(githubUrl) IN
       /\ error' = r.thrown
       /\ repoRef' = [owner |-> r.owner, repo |-> r.repo]
       /\ pc' = "fetch"
    /\ UNCHANGED <<githubUrl, options, repoData, readmeContent, techStack,
                   projectNumber, projectData, filename, projects, browse, fsLog,
                   netLog, gitLog, console, caught, exitCode, now, arg, ret, browseContent>>

\* 1. Parse GitHub URL
ParseUrl ==
    /\ pc = "parse"
    /\ LET r == ParseGitHubUrl(githubUrl) IN
       IF r.thrown # <<>>
       THEN /\ error' = r.thrown
            /\ pc' = "catch"
            /\ UNCHANGED repoRef
       ELSE /\ repoRef' = [owner |-> r.owner, repo |-> r.repo]
            /\ pc' = "fetch"
            /\ UNCHANGED error
    /\ UNCHANGED <<githubUrl, options, repoData, readmeContent, techStack,
                   projectNumber, projectData, filename, projects, browse, fsLog,
                   netLog, gitLog, console, caught, exitCode, now, arg, ret, browseContent>>

Outcomes ==
    [get : BOOLEAN, readme : BOOLEAN, packageJson : BOOLEAN,
     requirements : BOOLEAN, languages : BOOLEAN]

\* 2. Fetch repo data, the GitHub API describing the repository as remote
FetchFrom(remote, up) ==
    /\ pc = "fetch"
    /\ LET r == FetchRepoData(remote, up) IN
       /\ netLog' = netLog \o r.calls
       /\ IF r.thrown # <<>>
          THEN /\ error' = r.thrown
               /\ pc' = "catch"
               /\ UNCHANGED repoData
          ELSE /\ repoData' = r.data
               /\ pc' = "readme"
               /\ UNCHANGED error
    /\ UNCHANGED <<githubUrl, options, repoRef, readmeContent, techStack,
                   projectNumber, projectData, filename, projects, browse, fsLog,
                   gitLog, console, caught, exitCode, now, arg, ret, browseContent>>

Fetch(up) == FetchFrom(Remote, up)

\* 3. Parse README
AnalyzeReadme ==
    /\ pc = "readme"
    /\ readmeContent' = ParseReadme(repoData.readme)
    /\ pc' = "tech"
    /\ UNCHANGED <<githubUrl, options, repoRef, repoData, techStack,
                   projectNumber, projectData, filename, projects, browse, fsLog,
                   netLog, gitLog, console, error, caught, exitCode, now, arg, ret, browseContent>>

\* 4. Detect tech stack
DetectStack ==
    /\ pc = "tech"
    /\ techStack' = DetectTechStack(repoData)
    /\ pc' = "number"
    /\ UNCHANGED <<githubUrl, options, repoRef, repoData, readmeContent,
                   projectNumber, projectData, filename, projects, browse, fsLog,
                   netLog, gitLog, console, error, caught, exitCode, now, arg, ret, browseContent>>

\* 5. Determine project number
DetermineNumber ==
    /\ pc = "number"
    /\ projectNumber' =
          IF options.number # <<>> THEN options.number
          ELSE ProjectLabel \o DigitsOf(GetNextProjectNumber(Present(DOMAIN projects)))
    /\ pc' = "prompt"
    /\ UNCHANGED <<githubUrl, options, repoRef, repoData, readmeContent, techStack,
                   projectData, filename, projects, browse, fsLog,
                   netLog, gitLog, console, error, caught, exitCode, now, arg, ret, browseContent>>

\* what the operator can answer to an input prompt: the default, or, when
\* the default is empty, nothing or a typed value
Answers(default, typed) == IF default # <<>> THEN {default} ELSE {<<>>, typed}

BadgeColor(badge) == <<"gradient of ", badge.abbr>>

\* 7. Build project data
BuildProjectData(title, tagline, description, youtubeUrl, linkedinUrl, imageUrl) ==
    [projectNumber |-> projectNumber,
     title |-> title,
     tagline |-> tagline,
     description |-> description,
     githubUrl |-> repoData.url,
     youtubeUrl |-> youtubeUrl,
     linkedinUrl |-> linkedinUrl,
     imageUrl |-> imageUrl,
     techStack |-> IF Len(techStack) > 0 THEN techStack
                   ELSE <<Badge("Code", "Open Source", "Project")>>,
     features |-> readmeContent.features,
     installSteps |-> readmeContent.installation,
     stats |-> << IF Len(techStack) >= 1 THEN techStack[1].name ELSE "Modern",
                  IF Len(techStack) >= 2 THEN techStack[2].name ELSE "Stack",
                  "Open Source" >>,
     badgeColor |-> IF Len(techStack) >= 1 THEN BadgeColor(techStack[1])
                    ELSE <<DefaultBadgeColor>>]

\* 6. Interactive prompts for missing data, 7. Build project data
Prompt(title, youtubeUrl, linkedinUrl) ==
    /\ pc = "prompt"
    /\ title # <<>>
    /\ youtubeUrl \in Answers(IF options.youtube THEN <<"--youtube url">> ELSE <<>>,
                              <<"typed youtube url">>)
    /\ linkedinUrl \in Answers(IF options.linkedin THEN <<"--linkedin url">> ELSE <<>>,
                               <<"typed linkedin url">>)
    /\ projectData' =
          BuildProjectData(title,
                           IF options.tagline THEN <<"--tagline text">>
                           ELSE Slice100(repoData.description),
                           OrElse(readmeContent.description, repoData.description),
                           youtubeUrl, linkedinUrl, <<DefaultImageUrl>>)
    /\ pc' = "generate"
    /\ UNCHANGED <<githubUrl, options, repoRef, repoData, readmeContent, techStack,
                   projectNumber, filename, projects, browse, fsLog,
                   netLog, gitLog, console, error, caught, exitCode, now, arg, ret, browseContent>>

\* the catch block without its process.exit(1)
ExitStatusWithoutExit(thrown) == 0

\* .action(...): the status the process ends with, given the error that
\* left addProject (<<>>: it returned)
ExitStatus(thrown) == IF thrown # <<>> THEN 1 ELSE 0

\* the dry-run test left out
AfterGenerateIgnoringDryRun(opts) == "write"

\* if (options.dryRun) { ... return; }
AfterGenerate(opts) == IF opts.dryRun THEN "preview" ELSE "write"

\* 8. Generate HTML
Generate ==
    /\ pc = "generate"
    /\ filename' = GenerateFilename(projectData.title, projectNumber, now)
    /\ pc' = AfterGenerate(options)
    /\ UNCHANGED <<githubUrl, options, repoRef, repoData, readmeContent, techStack,
                   projectNumber, projectData, projects, browse, fsLog,
                   netLog, gitLog, console, error, caught, exitCode, now, arg, ret, browseContent>>

\* the dry-run branch: the preview is printed and addProject returns
Preview ==
    /\ pc = "preview"
    /\ console' = Append(console, "DRY RUN - Would create:")
    /\ exitCode' = ExitStatus(error)
    /\ pc' = "done"
    /\ UNCHANGED <<githubUrl, options, repoRef, repoData, readmeContent, techStack,
                   projectNumber, projectData, filename, projects, browse, fsLog,
                   netLog, gitLog, error, caught, now, arg, ret, browseContent>>
\* generateProjectHtml(projectData): the template is not part of the sources;
\* the page is kept as the title and label it is rendered from
GenerateProjectHtml(pd) == Page(pd.title, pd.projectNumber)

\* a step 9 that reports the page as created and creates nothing
WriteProjectFileCreatingNothing ==
    /\ pc = "write"
    /\ fsLog' = Append(fsLog, <<"projects/">> \o filename)
    /\ console' = Append(console, "Created: projects/<filename>")
    /\ pc' = "browse"
    /\ UNCHANGED <<githubUrl, options, repoRef, repoData, readmeContent, techStack,
                   projectNumber, projectData, filename, projects, browse,
                   netLog, gitLog, error, caught, exitCode, now, arg, ret, browseContent>>

\* 9. Write project file
WriteProjectFile ==
    /\ pc = "write"
    /\ projects' = [f \in DOMAIN projects \cup {filename} |->
                       IF f = filename THEN GenerateProjectHtml(projectData)
                       ELSE projects[f]]
    /\ fsLog' = Append(fsLog, <<"projects/">> \o filename)
    /\ console' = Append(console, "Created: projects/<filename>")
    /\ pc' = "browse"
    /\ UNCHANGED <<githubUrl, options, repoRef, repoData, readmeContent, techStack,
                   projectNumber, projectData, filename, browse,
                   netLog, gitLog, error, caught, exitCode, now, arg, ret, browseContent>>

\* a publish step that does not look at the flag
AfterUpdateAlwaysPublishing(opts) == "stage1"

\* if (options.push !== false)
AfterUpdate(opts) == IF opts.push THEN "stage1" ELSE "skipped"

\* 10. Update browse.html: updateBrowseHtml as a whole
UpdateBrowseHtml ==
    /\ pc = "browse"
    /\ LET r == UpdateBrowseContent(browse, projectData, filename) IN
       IF r.thrown # <<>>
       THEN /\ error' = r.thrown
            /\ pc' = "catch"
            /\ UNCHANGED <<browse, fsLog, console>>
       ELSE /\ browse' = r.content
            /\ fsLog' = Append(fsLog, <<"browse.html">>)
            /\ console' = Append(console, "Updated browse.html")
            /\ pc' = AfterUpdate(options)
            /\ UNCHANGED error
    /\ browseContent' = browse
    /\ UNCHANGED <<githubUrl, options, repoRef, repoData, readmeContent, techStack,
                   projectNumber, projectData, filename, projects,
                   netLog, gitLog, caught, exitCode, now, arg, ret>>

\* the staging loop without its try/catch: a failed git.add leaves the function
AfterStageAborting(at, ok) ==
    IF ~ok THEN "rejected" ELSE IF at = "stage1" THEN "stage2" ELSE "commit"

\* the for loop over filesToAdd: the catch logs a warning and the loop goes on
AfterStage(at, ok) == IF at = "stage1" THEN "stage2" ELSE "commit"

\* gitCommitAndPush: git.add(file) for one of the two files
GitAdd(ok) ==
    /\ pc \in {"stage1", "stage2"}
    /\ LET file == FilesToAdd(filename)[IF pc = "stage1" THEN 1 ELSE 2] IN
       gitLog' = Append(gitLog, GitCmd("add", file, ok))
    /\ console' = Append(console, IF ok THEN "Staged" ELSE "Warning: Could not stage")
    /\ pc' = AfterStage(pc, ok)
    /\ UNCHANGED <<githubUrl, options, repoRef, repoData, readmeContent, techStack,
                   projectNumber, projectData, filename, projects, browse, fsLog,
                   netLog, error, caught, exitCode, now, arg, ret, browseContent>>

\* a commit whose failure is swallowed like that of git.add
GitCommitGoingOn(ok) ==
    /\ pc = "commit"
    /\ gitLog' = Append(gitLog, GitCmd("commit", <<"Add ">> \o projectData.title
                                                  \o <<" project page">>, ok))
    /\ pc' = "push"
    /\ UNCHANGED <<githubUrl, options, repoRef, repoData, readmeContent, techStack,
                   projectNumber, projectData, filename, projects, browse, fsLog,
                   netLog, console, error, caught, exitCode, now, arg, ret, browseContent>>

\* gitCommitAndPush: git.commit(commitMessage); a rejection leaves the function
GitCommit(ok) ==
    /\ pc = "commit"
    /\ gitLog' = Append(gitLog, GitCmd("commit", <<"Add ">> \o projectData.title
                                                  \o <<" project page">>, ok))
    /\ IF ok THEN pc' = "push" /\ UNCHANGED caught
       ELSE pc' = "rejected" /\ caught' = CommitFailed
    /\ UNCHANGED <<githubUrl, options, repoRef, repoData, readmeContent, techStack,
                   projectNumber, projectData, filename, projects, browse, fsLog,
                   netLog, console, error, exitCode, now, arg, ret, browseContent>>

\* the fallback push made whether or not the first push failed
AfterPushAlwaysFallback(at, ok) ==
    IF at = "push" THEN "pushFallback" ELSE IF ok THEN "pushed" ELSE "rejected"

\* try { push main } catch (e) { try { push master } catch (e2) { throw e2 } }
AfterPush(at, ok) ==
    IF ok THEN "pushed" ELSE IF at = "push" THEN "pushFallback" ELSE "rejected"

\* gitCommitAndPush: git.push('origin', 'main'), then 'master' if that failed
GitPush(ok) ==
    /\ pc \in {"push", "pushFallback"}
    /\ LET branch == IF pc = "push" THEN "main" ELSE "master" IN
       /\ gitLog' = Append(gitLog, GitCmd("push", <<"origin", branch>>, ok))
       /\ console' = IF ok THEN Append(console, "Successfully pushed to origin")
                     ELSE IF AfterPush(pc, ok) = "rejected"
                     THEN Append(console, "Failed to push. You may need to push manually.")
                     ELSE console
       /\ caught' = IF AfterPush(pc, ok) = "rejected" THEN PushFailed(branch) ELSE caught
    /\ pc' = AfterPush(pc, ok)
    /\ UNCHANGED <<githubUrl, options, repoRef, repoData, readmeContent, techStack,
                   projectNumber, projectData, filename, projects, browse, fsLog,
                   netLog, error, exitCode, now, arg, ret, browseContent>>

\* a catch block of the publish step that takes the written page back
SummaryRollingBack ==
    /\ pc \in {"pushed", "rejected", "skipped"}
    /\ console' = console \o <<"Project added successfully!">>
    /\ projects' = IF pc = "rejected"
                   THEN [f \in DOMAIN projects \ {filename} |-> projects[f]]
                   ELSE projects
    /\ exitCode' = ExitStatus(error)
    /\ pc' = "done"
    /\ UNCHANGED <<githubUrl, options, repoRef, repoData, readmeContent, techStack,
                   projectNumber, projectData, filename, browse, fsLog,
                   netLog, gitLog, error, caught, now, arg, ret, browseContent>>

\* 11. the rest of the publish step, 12. Success summary; addProject returns
Summary ==
    /\ pc \in {"pushed", "rejected", "skipped"}
    /\ console' = console
          \o << CASE pc = "pushed" -> "Successfully pushed to GitHub!"
                  [] pc = "rejected" -> "Could not push automatically. Please push manually"
                  [] OTHER -> "Skipped git push (--no-push flag)",
                "Project added successfully!" >>
    /\ exitCode' = ExitStatus(error)
    /\ pc' = "done"
    /\ UNCHANGED <<githubUrl, options, repoRef, repoData, readmeContent, techStack,
                   projectNumber, projectData, filename, projects, browse, fsLog,
                   netLog, gitLog, error, caught, now, arg, ret, browseContent>>

\* catch (error) { console.error('Error:', error.message); process.exit(1); }
Catch ==
    /\ pc = "catch"
    /\ console' = Append(console, "Error:")
    /\ exitCode' = ExitStatus(error)
    /\ pc' = "done"
    /\ UNCHANGED <<githubUrl, options, repoRef, repoData, readmeContent, techStack,
                   projectNumber, projectData, filename, projects, browse, fsLog,
                   netLog, gitLog, error, caught, now, arg, ret, browseContent>>

Next ==
    \/ \E url \in Urls, opts \in Options : Add(url, opts)
    \/ ParseUrl
    \/ \E up \in Outcomes : Fetch(up)
    \/ AnalyzeReadme
    \/ DetectStack
    \/ DetermineNumber
    \/ \E title \in Titles, y \in {<<>>, <<"--youtube url">>, <<"typed youtube url">>},
          l \in {<<>>, <<"--linkedin url">>, <<"typed linkedin url">>} : Prompt(title, y, l)
    \/ Generate
    \/ Preview
    \/ WriteProjectFile
    \/ UpdateBrowseHtml
    \/ \E ok \in BOOLEAN : GitAdd(ok)
    \/ \E ok \in BOOLEAN : GitCommit(ok)
    \/ \E ok \in BOOLEAN : GitPush(ok)
    \/ Summary
    \/ Catch

Spec == Init /\ [][Next]_vars

(***************************************************************************)
(* Properties of a run of the add command (specification Spec)             *)
(***************************************************************************)
Adds == SelectSeq(gitLog, LAMBDA c : c.cmd = "add")
Commits == SelectSeq(gitLog, LAMBDA c : c.cmd = "commit")
Pushes == SelectSeq(gitLog, LAMBDA c : c.cmd = "push")

\* neither pattern of updateBrowseHtml matches the page
NoAnchor(page) ==
    /\ FirstMatch(page, "insertPattern").from = 0
    /\ FirstMatch(page, "fallbackPattern").from = 0

\* updateBrowseHtml has run to its end (returned or thrown) in this run
UpdateBrowseHtmlDone == browseContent # <<>>

\* C1: in a run with the dry-run flag, whatever the other options are, no
\* file is written (the project page is not created, the gallery page keeps
\* its text), no git command is issued, and when the run reaches the render
\* stage it ends right after printing the preview.
C1_DryRunWritesNothing ==
    options.dryRun =>
        /\ fsLog = <<>>
        /\ gitLog = <<>>
        /\ projects = ExistingProjects
        /\ browse \in BrowsePages
        /\ pc \notin {"write", "browse", "stage1", "stage2", "commit", "push",
                      "pushFallback", "pushed", "rejected", "skipped"}
        /\ (pc = "done" /\ error = <<>> =>
               /\ console[Len(console)] = "DRY RUN - Would create:"
               /\ exitCode = 0)

\* a dry run with a number, a tagline, both links and --no-push has printed
\* its preview and ended
C1_Witness ==
    /\ options.dryRun /\ pc = "done" /\ error = <<>>
    /\ options.number # <<>> /\ options.tagline /\ options.youtube
    /\ options.linkedin /\ ~options.push
    /\ console[Len(console)] = "DRY RUN - Would create:"

\* C2: when updateBrowseHtml is given a page that matches neither pattern it
\* throws the insertion-point error, issues no write of browse.html and the
\* page keeps its text; and that error is thrown in no other case.
C2_NoAnchorLeavesPage ==
    /\ (UpdateBrowseHtmlDone /\ NoAnchor(browseContent)) =>
          /\ error = InsertionPointError
          /\ browse = browseContent
          /\ fsLog = << <<"projects/">> \o filename >>
    /\ error = InsertionPointError =>
          /\ UpdateBrowseHtmlDone /\ NoAnchor(browseContent)

\* updateBrowseHtml has thrown on the page without the comment
C2_Witness ==
    /\ pc = "done" /\ error = InsertionPointError
    /\ browseContent = BrowseNoAnchor /\ browse = BrowseNoAnchor

\* text with ins put in before position at
InsertBefore(text, at, ins) ==
    SubSeq(text, 1, at - 1) \o ins \o SubSeq(text, at, Len(text))

\* the pattern updateBrowseHtml replaces in a page
Anchor(page) ==
    IF FirstMatch(page, "insertPattern").from # 0
    THEN FirstMatch(page, "insertPattern")
    ELSE FirstMatch(page, "fallbackPattern")

\* C3: when updateBrowseHtml succeeds the new page is the old page with the
\* card inserted immediately before the matched anchor, every piece of the
\* old page (the closing tags and the whitespace of the anchor included)
\* still in place around the card.
C3_CardInsertedBeforeAnchor ==
    (UpdateBrowseHtmlDone /\ error = <<>>) =>
        browse = InsertBefore(browseContent, Anchor(browseContent).from,
                              GenerateProjectCard(projectData, filename))

BothPushesFailed == Len(Pushes) = 2 /\ ~Pushes[1].ok /\ ~Pushes[2].ok

\* the four failures the exit behaviour is stated for
MalformedReference == pc # "parse" /\ githubUrl # <<>>
                      /\ ParseGitHubUrl(githubUrl).thrown # <<>>
PrimaryLookupFailed == netLog # <<>> /\ ~netLog[1].ok
AnchorMismatch == UpdateBrowseHtmlDone /\ NoAnchor(browseContent)

\* C4 as stated: each of the four fatal failures ends the process with a
\* non-zero status and a printed error message, and a run ends with status
\* zero only if none of them occurred.
C4_EveryFatalFailureExitsNonZero ==
    pc = "done" =>
        /\ (MalformedReference \/ PrimaryLookupFailed \/ AnchorMismatch \/ BothPushesFailed)
              => (exitCode # 0 /\ console[Len(console)] = "Error:")
        /\ exitCode = 0 =>
              ~(MalformedReference \/ PrimaryLookupFailed \/ AnchorMismatch
                \/ BothPushesFailed)

\* C4 amended: a run ends with status 1 and a printed error message exactly
\* when an error leaves addProject, which a malformed reference, a failed
\* primary lookup and an anchor mismatch make happen; a failure of the
\* publish step (commit, or push on both branch names) is caught inside
\* addProject, a hint to push manually is printed and the run ends with
\* status zero.
C4_ExitStatusFollowsUncaughtError ==
    pc = "done" =>
        /\ exitCode \in {0, 1}
        /\ exitCode = 1 <=> error # <<>>
        /\ error # <<>> => console[Len(console)] = "Error:"
        /\ (MalformedReference \/ PrimaryLookupFailed \/ AnchorMismatch) => exitCode = 1
        /\ (BothPushesFailed \/ (Commits # <<>> /\ ~Commits[1].ok)) =>
              /\ exitCode = 0
              /\ caught # <<>>
              /\ error = <<>>
              /\ console[Len(console) - 1]
                    = "Could not push automatically. Please push manually"

\* a run whose two pushes failed has ended with status zero
C4_Witness ==
    pc = "done" /\ BothPushesFailed /\ exitCode = 0 /\ caught = PushFailed("master")

\* C5: once the primary lookup has succeeded no other lookup makes
\* fetchRepoData fail: all five lookups are made, fetchRepoData returns,
\* and the field of each failed lookup is absent.
C5_OnlyPrimaryLookupIsFatal ==
    (netLog # <<>> /\ netLog[1].ok) =>
        /\ Len(netLog) = 5
        /\ error \notin {RepositoryNotFound, LanguagesRequestFailed}
        /\ pc \notin {"fetch", "catch"} =>
              /\ ~netLog[2].ok => ~repoData.readme.ok
              /\ ~netLog[3].ok => ~repoData.packageJson.ok
              /\ ~netLog[4].ok => ~repoData.requirements.ok
              /\ ~netLog[5].ok => repoData.languages = <<>>

\* C8: the first push goes to main; master is pushed if and only if the
\* push to main failed; when either push succeeds gitCommitAndPush returns
\* and when both fail the error of the second push reaches the caller.
C8_PushFallback ==
    /\ Len(Pushes) <= 2
    /\ Pushes # <<>> => Pushes[1].what = <<"origin", "main">>
    /\ Len(Pushes) = 2 => (~Pushes[1].ok /\ Pushes[2].what = <<"origin", "master">>)
    /\ (Pushes # <<>> /\ ~Pushes[1].ok /\ pc # "pushFallback") => Len(Pushes) = 2
    /\ (Pushes # <<>> /\ Pushes[Len(Pushes)].ok) => (caught = <<>> /\ pc \in {"pushed", "done"})
    /\ BothPushesFailed => (caught = PushFailed("master") /\ pc \in {"rejected", "done"})
    /\ pc = "pushed" => (Pushes # <<>> /\ Pushes[Len(Pushes)].ok)

\* the push to main failed, the push to master succeeded and
\* gitCommitAndPush returned
C8_Witness ==
    /\ Len(Pushes) = 2 /\ ~Pushes[1].ok /\ Pushes[2].ok
    /\ pc = "pushed" /\ caught = <<>>

\* C9: whatever the two git.add calls do, both are made (the project file,
\* then browse.html) and the commit is attempted after them.
C9_StagingFailureDoesNotAbort ==
    gitLog # <<>> =>
        /\ gitLog[1].cmd = "add" /\ gitLog[1].what = <<"projects/">> \o filename
        /\ pc # "stage2" =>
              /\ Len(gitLog) >= 2
              /\ gitLog[2].cmd = "add" /\ gitLog[2].what = <<"browse.html">>
              /\ pc # "commit" => (Len(gitLog) >= 3 /\ gitLog[3].cmd = "commit")

\* both git.add calls failed and the commit was made
C9_Witness ==
    /\ Len(gitLog) >= 3 /\ ~gitLog[1].ok /\ ~gitLog[2].ok
    /\ gitLog[3].cmd = "commit" /\ gitLog[3].ok

(***************************************************************************)
(* Library functions called on their own.  arg is the call, ret what it    *)
(* has returned; the variables of the add command stay as installed.       *)
(***************************************************************************)
Call(f, in) == [f |-> f, in |-> in]

\* all sequences over S of length at most n
SeqsUpTo(S, n) == UNION {[1..k -> S] : k \in 0..n}

\* the sequences of SeqsUpTo(S, n) without a repeated element
DistinctSeqsUpTo(S, n) ==
    {q \in SeqsUpTo(S, n) : \A i, j \in DOMAIN q : i # j => q[i] # q[j]}

OneCall(f) ==
    /\ arg.f = f
    /\ ~ret.done
    /\ UNCHANGED <<pc, githubUrl, options, repoRef, repoData, readmeContent,
                   techStack, projectNumber, projectData, filename, projects,
                   browse, browseContent, fsLog, netLog, gitLog, console, error,
                   caught, exitCode, now, arg>>

(***************************************************************************)
(* parseGitHubUrl on its own (specification SpecUrl)                       *)
(***************************************************************************)
MaxUrlLen == 5

UrlTokens == {"github.com", "/", ":", "a", "b", ".git"}

UrlPrefixes == {<<>>, Https, <<"git@">>}

\* a reference in which the colon pattern matches before the slash pattern
BothForms == <<"git@", "github.com", ":", "b", "/", "github.com", "/", "a", "/", "b", ".git">>

\* owner and repository names of the checked references
RepoNames == SeqsUpTo({"a", "b"}, 2) \ {<<>>}

\* [prefix]github.com/owner/repo[.git] and [prefix]github.com:owner/repo[.git]
References ==
    {pre \o <<"github.com", sep>> \o o \o <<"/">> \o r \o g :
        pre \in UrlPrefixes, sep \in {"/", ":"}, o \in RepoNames, r \in RepoNames,
        g \in {<<>>, <<".git">>}}

UrlInputs ==
    SeqsUpTo(UrlTokens, MaxUrlLen) \cup References \cup Urls \cup {BothForms}

InitUrl ==
    /\ Installed /\ browse = BrowsePrimary
    /\ arg \in {Call("parseGitHubUrl", u) : u \in UrlInputs}
    /\ ret = NotReturned

CallParseGitHubUrl ==
    /\ OneCall("parseGitHubUrl")
    /\ ret' = Returned(ParseGitHubUrl(arg.in))

NextUrl == CallParseGitHubUrl

SpecUrl == InitUrl /\ [][NextUrl]_vars

\* github.com, a separator, a name, a slash and a name occur at i in url
RefAt(url, i) ==
    /\ url[i] = "github.com"
    /\ i + 1 <= Len(url) /\ url[i + 1] \in {"/", ":"}
    /\ \E j \in (i + 3)..(Len(url) - 1) :
          /\ url[j] = "/"
          /\ \A k \in (i + 2)..(j - 1) : url[k] # "/"
          /\ url[j + 1] # "/"

\* C6: a reference that ends in github.com, a slash or a colon, owner,
\* a slash and repo, with or without .git at its end, gives owner and repo
\* with .git taken off, the slash pattern having precedence where both
\* match; a string in which neither pattern occurs makes parseGitHubUrl
\* throw the invalid-URL error and return nothing; no other string does.
C6_ParseGitHubUrl ==
    (arg.f = "parseGitHubUrl" /\ ret.done) =>
        /\ \A pre \in UrlPrefixes \cup {SubSeq(BothForms, 1, 5)}, sep \in {"/", ":"},
              o \in RepoNames, r \in RepoNames, g \in {<<>>, <<".git">>} :
              (/\ arg.in = pre \o <<"github.com", sep>> \o o \o <<"/">> \o r \o g
               /\ (sep = ":" => pre \in UrlPrefixes))
                 => ret.v = [thrown |-> <<>>, owner |-> o, repo |-> r]
        /\ (\A i \in DOMAIN arg.in : ~RefAt(arg.in, i))
              <=> ret.v = [thrown |-> InvalidGitHubUrl \o arg.in,
                           owner |-> <<>>, repo |-> <<>>]
        /\ ret.v.thrown = <<>> => ret.v.owner # <<>>

\* https://github.com/a/b.git has given owner a and repo b
C6_Witness ==
    /\ arg = Call("parseGitHubUrl", Https \o <<"github.com", "/", "a", "/", "b", ".git">>)
    /\ ret = Returned([thrown |-> <<>>, owner |-> <<"a">>, repo |-> <<"b">>])

(***************************************************************************)
(* detectTechStack on its own (specification SpecTech)                     *)
(***************************************************************************)
MaxLangs == 4
MaxTopics == 2
MaxStack == 4

LangNames == {"JavaScript", "Python", "HTML", "Shell"}

TopicNames == {"REACT", "docker", "constructor"}

\* a languages map with the given key order; the byte counts fall along the
\* keys (as GitHub sends them) or rise
Languages(names, falling) ==
    [i \in DOMAIN names |->
        [name |-> names[i],
         bytes |-> 100 * (IF falling THEN Len(names) + 1 - i ELSE i)]]

LanguageMaps ==
    {Languages(q, f) : q \in DistinctSeqsUpTo(LangNames, MaxLangs), f \in BOOLEAN}

PackageJsons ==
    {[ok |-> FALSE, v |-> {}]}
        \cup {[ok |-> TRUE, v |-> d] : d \in SUBSET {"react", "next", "openai"}}

RequirementsFiles ==
    {Absent, Present(<<>>), Present(<<"openai">>),
     Present(<<"TorchVision", "tensorflow-gpu">>)}

RepoDatas ==
    {[NoRepoData EXCEPT !.name = "my-app", !.languages = l, !.topics = t,
                        !.packageJson = p, !.requirements = r] :
        l \in LanguageMaps, t \in SeqsUpTo(TopicNames, MaxTopics),
        p \in PackageJsons, r \in RequirementsFiles}

InitTech ==
    /\ Installed /\ browse = BrowsePrimary
    /\ arg \in {Call("detectTechStack", rd) : rd \in RepoDatas}
    /\ ret = NotReturned

CallDetectTechStack ==
    /\ OneCall("detectTechStack")
    /\ ret' = Returned(DetectTechStack(arg.in))

NextTech == CallDetectTechStack

SpecTech == InitTech /\ [][NextTech]_vars

\* C7: whatever the languages, topics, dependencies and requirements are,
\* detectTechStack returns at most 4 badges and no two of them have names
\* that are equal when lower-cased.
C7_AtMostFourDistinctNames ==
    (arg.f = "detectTechStack" /\ ret.done) =>
        /\ Len(ret.v) <= MaxStack
        /\ \A i, j \in DOMAIN ret.v :
              i # j => LowerName(ret.v[i].name) # LowerName(ret.v[j].name)

\* four languages, the topic REACT and the dependency react: four badges,
\* React among them
C7_Witness ==
    /\ arg.f = "detectTechStack" /\ ret.done
    /\ Len(arg.in.languages) = 4
    /\ arg.in.topics = <<"REACT", "docker">>
    /\ arg.in.packageJson.ok /\ "react" \in arg.in.packageJson.v
    /\ Len(ret.v) = MaxStack
    /\ \E i \in DOMAIN ret.v : ret.v[i].name = "React"

(***************************************************************************)
(* generateFilename on its own, called again and again while the clock     *)
(* ticks (specification SpecName)                                          *)
(***************************************************************************)
MaxTitleLen == 3
MaxLabelLen == 2
MaxTicks == 1
MaxCalls == 2

TitleChars == {"A", " ", "-"}

\* the titles and labels of the documented examples, and two with digits
ExampleNames ==
    { [title |-> <<"M","y"," ","A","p","p">>, projectNumber |-> ProjectLabel \o <<"7">>],
      [title |-> <<"M","y"," ","C","o","o","l","-","-","A","p","p","!">>,
       projectNumber |-> ProjectLabel \o <<"1","2">>],
      [title |-> <<"2"," ","F","a","s","t">>,
       projectNumber |-> <<"v","0","0","7",".","1","0">>] }

LabelChars == {"P", "7", "0"}

InitName ==
    /\ Installed /\ browse = BrowsePrimary
    /\ arg \in {Call("generateFilename", [title |-> t, projectNumber |-> l]) :
                   t \in SeqsUpTo(TitleChars, MaxTitleLen),
                   l \in SeqsUpTo(LabelChars, MaxLabelLen)}
               \cup {Call("generateFilename", e) : e \in ExampleNames}
    /\ ret = NotReturned

\* generateFilename(title, projectNumber) is called; ret.v keeps every
\* filename returned with the time of its call
CallGenerateFilename ==
    /\ arg.f = "generateFilename"
    /\ Len(ret.v) < MaxCalls
    /\ ret' = Returned(Append(ret.v,
                  [at |-> now,
                   v |-> GenerateFilename(arg.in.title, arg.in.projectNumber, now)]))
    /\ UNCHANGED <<pc, githubUrl, options, repoRef, repoData, readmeContent,
                   techStack, projectNumber, projectData, filename, projects,
                   browse, browseContent, fsLog, netLog, gitLog, console, error,
                   caught, exitCode, now, arg>>

\* a millisecond passes
Tick ==
    /\ arg.f = "generateFilename"
    /\ now < 1000 + MaxTicks
    /\ now' = now + 1
    /\ UNCHANGED <<pc, githubUrl, options, repoRef, repoData, readmeContent,
                   techStack, projectNumber, projectData, filename, projects,
                   browse, browseContent, fsLog, netLog, gitLog, console, error,
                   caught, exitCode, arg, ret>>

NextName == CallGenerateFilename \/ Tick

SpecName == InitName /\ [][NextName]_vars

HasDigit(label) == \E i \in DOMAIN label : IsDigit(label[i])

\* C10 as stated: any two calls with the same title and label return the
\* same filename, whenever they are made.
C10_SameInputsSameFilename ==
    arg.f = "generateFilename" =>
        \A i, j \in DOMAIN ret.v : ret.v[i].v = ret.v[j].v

\* C10 amended: for a label that holds a digit any two calls with the same
\* title and label return the same filename, whenever they are made; for a
\* label without a digit the filename carries the time of the call, so two
\* calls return the same filename exactly when made in the same millisecond.
C10_DeterministicForNumberedLabels ==
    arg.f = "generateFilename" =>
        \A i, j \in DOMAIN ret.v :
            /\ HasDigit(arg.in.projectNumber) => ret.v[i].v = ret.v[j].v
            /\ ~HasDigit(arg.in.projectNumber) =>
                  (ret.v[i].v = ret.v[j].v <=> ret.v[i].at = ret.v[j].at)

\* two calls with the label P7, a millisecond apart, have returned the same
\* filename
C10_Witness ==
    /\ arg.f = "generateFilename" /\ arg.in.projectNumber = <<"P", "7">>
    /\ Len(ret.v) = 2 /\ ret.v[1].at # ret.v[2].at /\ ret.v[1].v = ret.v[2].v

\* the digits of label[i..j] are the first integer written in label
FirstIntegerAt(label, i, j) ==
    /\ i <= j
    /\ \A k \in 1..(i - 1) : ~IsDigit(label[k])
    /\ \A k \in i..j : IsDigit(label[k])
    /\ j = Len(label) \/ ~IsDigit(label[j + 1])

\* C11: for a label in which an integer occurs generateFilename returns
\* day-<n>-<slug>.html, n being the first integer of the label, digit for
\* digit as the label writes it, and slug the slugified title; My App with
\* Project 7 gives day-7-my-app.html.
C11_FilenameFormat ==
    arg.f = "generateFilename" =>
        \A c \in DOMAIN ret.v :
            /\ \A i, j \in DOMAIN arg.in.projectNumber :
                  FirstIntegerAt(arg.in.projectNumber, i, j) =>
                      ret.v[c].v = <<"d","a","y","-">>
                                   \o SubSeq(arg.in.projectNumber, i, j) \o <<"-">>
                                   \o Slugify(arg.in.title) \o <<".","h","t","m","l">>
            /\ (arg.in.title = <<"M","y"," ","A","p","p">>
                /\ arg.in.projectNumber = ProjectLabel \o <<"7">>) =>
                  ret.v[c].v = <<"d","a","y","-","7","-","m","y","-","a","p","p",
                                 ".","h","t","m","l">>

\* the label v007.10 and the title 2 Fast have given day-007-2-fast.html
C11_Witness ==
    /\ arg.f = "generateFilename"
    /\ arg.in.projectNumber = <<"v","0","0","7",".","1","0">>
    /\ ret.v # <<>>
    /\ ret.v[1].v = <<"d","a","y","-","0","0","7","-","2","-","f","a","s","t",
                      ".","h","t","m","l">>

\* the slug of a returned filename: what stands between day-<digits>- and .html
SlugOf(f) ==
    LET rest == SubSeq(f, 5, Len(f) - 5)
        n == Max({k \in 0..Len(rest) : \A m \in 1..k : IsDigit(rest[m])})
    IN  SubSeq(rest, n + 2, Len(rest))

\* C12: the slug of every returned filename begins with no hyphen, ends with
\* no hyphen, holds no two adjacent hyphens, and slugifying it again returns
\* it unchanged; My Cool--App! gives my-cool-app.
C12_SlugIdempotentAndTrimmed ==
    arg.f = "generateFilename" =>
        \A c \in DOMAIN ret.v :
            LET slug == SlugOf(ret.v[c].v) IN
            /\ slug # <<>> => (slug[1] # "-" /\ slug[Len(slug)] # "-")
            /\ \A k \in 1..(Len(slug) - 1) : ~(slug[k] = "-" /\ slug[k + 1] = "-")
            /\ Slugify(slug) = slug
            /\ arg.in.title = <<"M","y"," ","C","o","o","l","-","-","A","p","p","!">> =>
                  slug = <<"m","y","-","c","o","o","l","-","a","p","p">>

\* My Cool--App! has been slugified to my-cool-app
C12_Witness ==
    /\ arg.f = "generateFilename"
    /\ arg.in.title = <<"M","y"," ","C","o","o","l","-","-","A","p","p","!">>
    /\ ret.v # <<>>
    /\ SlugOf(ret.v[1].v) = <<"m","y","-","c","o","o","l","-","a","p","p">>

(***************************************************************************)
(* parseReadme on its own (specification SpecReadme)                       *)
(***************************************************************************)
MaxBullets == 8
MaxFeatures == 6

BulletTexts == <<"one", "two", "three", "four", "five", "six", "seven",
                 "eight", "nine", "ten">>

Blank == ReadmeLine("blank", "", 0)

Bullets(n) == [k \in 1..n |-> ReadmeLine("bullet", BulletTexts[k], 2 + k)]

ReadmeIntros ==
    { <<>>,
      << ReadmeLine("h1", "My App", 8), Blank,
         ReadmeLine("text", "A tool that does a number of useful things for its users.", 57),
         Blank >> }

InstallSection ==
    << ReadmeLine("install", "Installation", 15), Blank,
       ReadmeLine("fence", "bash", 7), ReadmeLine("text", "npm install", 11),
       ReadmeLine("fence", "", 3) >>

\* what follows the last bullet: the end of the text with or without a
\* newline or after empty lines, a ## section, or a # section
ReadmeTails ==
    { <<>>,
      <<Blank>>,
      <<Blank, Blank, Blank>>,
      <<Blank>> \o InstallSection \o <<Blank>>,
      <<Blank, ReadmeLine("h1", "License", 9), ReadmeLine("bullet", "MIT", 5), Blank>> }

ReadmesWithFeatures ==
    { intro \o <<ReadmeLine(h, "Features", 11)>> \o gap \o Bullets(n) \o tail :
        intro \in ReadmeIntros, h \in {"features", "h1features"},
        gap \in {<<>>, <<Blank>>}, n \in 0..MaxBullets, tail \in ReadmeTails }

ReadmesWithoutFeatures ==
    { intro \o mid \o tail :
        intro \in ReadmeIntros, mid \in {<<>>, InstallSection, Bullets(2)},
        tail \in {<<>>, <<Blank>>} }

ReadmeInputs ==
    {Absent} \cup {Present(r) : r \in ReadmesWithFeatures \cup ReadmesWithoutFeatures}

InitReadme ==
    /\ Installed /\ browse = BrowsePrimary
    /\ arg \in {Call("parseReadme", r) : r \in ReadmeInputs}
    /\ ret = NotReturned

CallParseReadme ==
    /\ OneCall("parseReadme")
    /\ ret' = Returned(ParseReadme(arg.in))

NextReadme == CallParseReadme

SpecReadme == InitReadme /\ [][NextReadme]_vars

HeadingKinds == {"h1", "h1features", "features", "install", "h2"}

\* the bullet texts of the Features section of a README: the bullet lines
\* between the first Features heading and the next heading or the end
SectionBullets(lines) ==
    LET H == {i \in DOMAIN lines : lines[i].kind \in {"features", "h1features"}}
        h == Min(H)
        E == {j \in (h + 1)..Len(lines) : lines[j].kind \in HeadingKinds}
        e == IF E = {} THEN Len(lines) + 1 ELSE Min(E)
        bs == SelectSeq(SubSeq(lines, h + 1, e - 1), LAMBDA l : l.kind = "bullet")
    IN  IF H = {} THEN <<>> ELSE [k \in DOMAIN bs |-> bs[k].text]

HasFeaturesSection(lines) == \E i \in DOMAIN lines : lines[i].kind \in {"features", "h1features"}

\* C13 as stated: for a README with a Features section of n bullets,
\* wherever the section is, the last place included, parseReadme returns
\* the first min(n, 6) bullets in their order without the marker.
C13_FirstSixBullets ==
    (arg.f = "parseReadme" /\ ret.done /\ arg.in.ok /\ HasFeaturesSection(arg.in.v)) =>
        ret.v.features = TakeFirst(SectionBullets(arg.in.v), MaxFeatures)

(***************************************************************************)
(* getNextProjectNumber on its own (specification SpecNumber)              *)
(***************************************************************************)
\* names a projects directory may hold: pages named by generateFilename,
\* other files, and pages named by hand
FileNames ==
    { <<"d","a","y","-","1","-","f","i","r","s","t",".","h","t","m","l">>,
      <<"d","a","y","-","7","-","m","y","-","a","p","p",".","h","t","m","l">>,
      <<"d","a","y","-","1","2","-","x",".","h","t","m","l">>,
      <<"d","a","y","-","0","0","9",".","h","t","m","l">>,
      <<"i","n","d","e","x",".","h","t","m","l">>,
      <<"d","a","y","-","2","0",".","t","x","t">>,
      <<"n","o","t","e","s","-","d","a","y","-","3","0",".","h","t","m","l">>,
      <<"d","a","y","-",".","h","t","m","l">>,
      <<"d","a","y","-","x","-","d","a","y","-","4","0",".","h","t","m","l">> }

\* the directory listing, or absent when readdir fails
Directories == {Absent} \cup {Present(d) : d \in SUBSET FileNames}

InitNumber ==
    /\ Installed /\ browse = BrowsePrimary
    /\ arg \in {Call("getNextProjectNumber", d) : d \in Directories}
    /\ ret = NotReturned

CallGetNextProjectNumber ==
    /\ OneCall("getNextProjectNumber")
    /\ ret' = Returned(GetNextProjectNumber(arg.in))

NextNumber == CallGetNextProjectNumber

SpecNumber == InitNumber /\ [][NextNumber]_vars

\* the name follows the convention day-<number>...html
FollowsConvention(f) ==
    /\ Len(f) >= 10
    /\ SubSeq(f, 1, 4) = <<"d","a","y","-">>
    /\ IsDigit(f[5])
    /\ SubSeq(f, Len(f) - 4, Len(f)) = <<".","h","t","m","l">>

\* the number of a name that follows the convention
NumberOf(f) ==
    ParseInt(SubSeq(f, 5, Max({k \in 5..Len(f) : \A m \in 5..k : IsDigit(f[m])})))

\* C14 as stated: getNextProjectNumber returns one more than the largest
\* number among the names that follow the convention day-<number>...html,
\* and 1 when there is no such name or the directory cannot be read.
C14_NextProjectNumber ==
    (arg.f = "getNextProjectNumber" /\ ret.done) =>
        LET named == IF arg.in.ok THEN {f \in arg.in.v : FollowsConvention(f)} ELSE {}
        IN  ret.v = IF named = {} THEN 1
                    ELSE Max({NumberOf(f) : f \in named}) + 1

(***************************************************************************)
(* The order of the badges (specification SpecTech)                        *)
(***************************************************************************)
\* the keys of the languages map, in the order of the map, that are among
\* the three with the largest byte counts
LargestThree(languages) ==
    LET big == SelectSeq(languages,
                   LAMBDA l : Cardinality({i \in DOMAIN languages :
                                              languages[i].bytes > l.bytes}) < 3)
    IN  [i \in DOMAIN big |-> big[i].name]

\* the first three keys of the languages map
FirstThree(languages) ==
    [i \in 1..Min({3, Len(languages)}) |-> languages[i].name]

\* the badges of the keys in langs, then of the topics, then of the
\* dependencies of package.json and of the packages of requirements.txt,
\* without the keys that have no badge, a badge whose lower-cased name came
\* before left out, cut to four
ScanFrom(langs, rd) ==
    LET topics == [i \in DOMAIN rd.topics |-> LowerName(rd.topics[i])]
        deps == IF rd.packageJson.ok THEN Keys(DepMappings, rd.packageJson.v) ELSE <<>>
        pkgs == IF rd.requirements.ok
                THEN Keys(PyMappings, {p \in {e[1] : e \in Range(PyMappings)} :
                                          ReqIncludes(rd.requirements.v, p)})
                ELSE <<>>
        keys == SelectSeq(langs \o topics \o deps \o pkgs, HasMapping)
        names == [i \in DOMAIN keys |-> LowerName(Mapping(keys[i]).name)]
        firsts == SelectSeq([i \in DOMAIN keys |->
                                IF \E j \in 1..(i - 1) : names[j] = names[i]
                                THEN 0 ELSE i],
                            LAMBDA i : i # 0)
        all == [i \in DOMAIN firsts |-> Mapping(keys[firsts[i]])]
    IN  SubSeq(all, 1, Min({MaxStack, Len(all)}))

\* C15 as stated: the badges are the first four of the scan of the three
\* languages with the largest byte counts, the topics and the dependencies,
\* the first occurrence of a name winning.
C15_LargestLanguagesFirst ==
    (arg.f = "detectTechStack" /\ ret.done) =>
        ret.v = ScanFrom(LargestThree(arg.in.languages), arg.in)

\* C15 amended: the badges are the first four of the scan of the first
\* three keys of the languages map in the order of the map, the topics in
\* their order, the dependencies and the requirement packages, the first
\* occurrence of a name winning; the three languages are those with the
\* largest byte counts when the map lists them by falling byte count.
C15_FirstLanguagesFirst ==
    (arg.f = "detectTechStack" /\ ret.done) =>
        /\ ret.v = ScanFrom(FirstThree(arg.in.languages), arg.in)
        /\ (\A i, j \in DOMAIN arg.in.languages :
               i < j => arg.in.languages[i].bytes > arg.in.languages[j].bytes)
              => ret.v = ScanFrom(LargestThree(arg.in.languages), arg.in)

\* four languages by falling byte count, the topics REACT and docker, the
\* dependency react: JavaScript, Python, HTML5 and React are returned
C15_Witness ==
    /\ arg.f = "detectTechStack" /\ ret.done
    /\ arg.in.languages = Languages(<<"JavaScript", "Python", "HTML", "Shell">>, TRUE)
    /\ arg.in.topics = <<"REACT", "docker">>
    /\ arg.in.packageJson.ok /\ "react" \in arg.in.packageJson.v
    /\ [i \in DOMAIN ret.v |-> ret.v[i].name] = <<"JavaScript", "Python", "HTML5", "React">>

(***************************************************************************)
(* The add command on repositories with little in them: READMEs without    *)
(* sections, no README, no manifests (specification SpecSparse)            *)
(***************************************************************************)
SparseReadmes ==
    { Readme,
      << ReadmeLine("h1", "My App", 8), Blank,
         ReadmeLine("text", "A tool that does a number of useful things for its users.", 57),
         Blank >>,
      <<ReadmeLine("h1", "My App", 8), Blank>> \o InstallSection \o <<Blank>>,
      <<ReadmeLine("features", "Features", 11)>> \o Bullets(2) \o <<Blank>> }

SparseRemotes == {[Remote EXCEPT !.readme = Present(r)] : r \in SparseReadmes}

SparseOptions == {[NoOptions EXCEPT !.push = p, !.dryRun = d] : p, d \in BOOLEAN}

InitSparse == Init /\ browse = BrowsePrimary

NextSparse ==
    \/ \E opts \in SparseOptions :
          Add(Https \o <<"github.com", "/", "a", "/", "b", ".git">>, opts)
    \/ ParseUrl
    \/ \E remote \in SparseRemotes, up \in Outcomes : FetchFrom(remote, up)
    \/ AnalyzeReadme
    \/ DetectStack
    \/ DetermineNumber
    \/ \E title \in Titles, y \in {<<>>, <<"typed youtube url">>},
          l \in {<<>>, <<"typed linkedin url">>} : Prompt(title, y, l)
    \/ Generate
    \/ Preview
    \/ WriteProjectFile
    \/ UpdateBrowseHtml
    \/ \E ok \in BOOLEAN : GitAdd(ok)
    \/ \E ok \in BOOLEAN : GitCommit(ok)
    \/ \E ok \in BOOLEAN : GitPush(ok)
    \/ Summary
    \/ Catch

SpecSparse == InitSparse /\ [][NextSparse]_vars

\* the README is absent or holds no heading of the section
NoSection(readme, headings) ==
    ~readme.ok \/ \A i \in DOMAIN readme.v : readme.v[i].kind \notin headings

\* fetchRepoData has returned and parseReadme has been called on its README
ReadmeAnalyzed == repoData # NoRepoData /\ pc \notin {"fetch", "readme"}

\* C16: an absent README, or one without a Features or an Installation
\* section, raises no error: parseReadme returns (nothing for an absent
\* README, an empty list for a missing section), detectTechStack returns
\* whatever manifests are absent, the project data is built with an empty
\* list of features and of install steps, and the run goes on to render and
\* write the page; the only error such a run can still end with is that of
\* the gallery page.
C16_AbsentReadmeGoesOn ==
    /\ [](ReadmeAnalyzed =>
            /\ ~repoData.readme.ok => ~readmeContent.defined
            /\ NoSection(repoData.readme, {"features", "h1features"}) =>
                  /\ readmeContent.features = <<>>
                  /\ projectData # NoProjectData => projectData.features = <<>>
            /\ NoSection(repoData.readme, {"install"}) =>
                  /\ readmeContent.installation = <<>>
                  /\ projectData # NoProjectData => projectData.installSteps = <<>>
            /\ error \in {<<>>, InsertionPointError}
            /\ (pc = "done" /\ ~options.dryRun /\ error = <<>>) =>
                  /\ filename \in DOMAIN projects
                  /\ projects[filename] = GenerateProjectHtml(projectData))
    /\ [][/\ pc = "readme" => (pc' = "tech" /\ error' = <<>>)
          /\ pc = "tech" => (pc' = "number" /\ error' = <<>>)
          /\ pc = "prompt" => (pc' = "generate" /\ error' = <<>>)
          /\ pc = "generate" => (pc' \in {"preview", "write"} /\ error' = <<>>)]_vars

\* a run on a repository without README and without manifests has written
\* its page, with no features and no install steps, and ended
C16_Witness ==
    /\ pc = "done" /\ error = <<>> /\ ~options.dryRun
    /\ repoData # NoRepoData /\ ~repoData.readme.ok
    /\ ~repoData.packageJson.ok /\ ~repoData.requirements.ok
    /\ projectData.features = <<>> /\ projectData.installSteps = <<>>
    /\ filename \in DOMAIN projects

(***************************************************************************)
(* The files after a failed publish step (specification Spec)              *)
(***************************************************************************)
\* gitCommitAndPush has thrown: the commit failed, or both pushes did
PublishFailed == caught # <<>>

\* the run is in its publish step, or has left it
Publishing ==
    pc \in {"stage1", "stage2", "commit", "push", "pushFallback", "pushed", "rejected"}

\* C17: when the commit fails, or the push fails on both branch names, the
\* project page and the gallery page stay as the run wrote them: the page is
\* in projects/ with the content rendered, the gallery page is the spliced
\* one, the two writes are the only writes, and no step from the start of the
\* publish step on touches a file.
C17_NoRollbackAfterPublishFailure ==
    /\ [](PublishFailed =>
            /\ ~options.dryRun
            /\ filename \in DOMAIN projects
            /\ projects[filename] = GenerateProjectHtml(projectData)
            /\ browse # browseContent
            /\ fsLog = << <<"projects/">> \o filename, <<"browse.html">> >>)
    /\ [][(Publishing \/ PublishFailed) => UNCHANGED <<projects, browse, fsLog>>]_vars

\* a run has ended after both pushes failed, with its two files in place
C17_Witness ==
    /\ pc = "done" /\ caught = PushFailed("master")
    /\ filename \in DOMAIN projects
    /\ Len(fsLog) = 2 /\ Len(Pushes) = 2

(***************************************************************************)
(* The order of the stages of a run (specification Spec)                   *)
(***************************************************************************)
\* the place of a step in addProject: 1 parse URL, 2 fetch, 3 analyze README,
\* 4 detect tech stack, 5 and 6 collect input, 7 render, 8 write the project
\* page (or preview it), 9 splice the gallery page, 10 publish
StageOf(p) ==
    CASE p = "idle" -> 0
      [] p = "parse" -> 1
      [] p = "fetch" -> 2
      [] p = "readme" -> 3
      [] p = "tech" -> 4
      [] p = "number" -> 5
      [] p = "prompt" -> 6
      [] p = "generate" -> 7
      [] p \in {"preview", "write"} -> 8
      [] p = "browse" -> 9
      [] p \in {"stage1", "stage2", "commit", "push", "pushFallback",
                "pushed", "rejected", "skipped"} -> 10
      [] OTHER -> 11

C19_AnchorErrorLeavesNoPartialWrite ==
    error = InsertionPointError =>
        /\ browse = browseContent
        /\ fsLog = <<>>
        /\ projects = ExistingProjects

(***************************************************************************)
(* The git commands of one gitCommitAndPush (specification Spec)           *)
(***************************************************************************)
\* the commands of a call that ran to its end, in order
GitOrder == <<"add", "add", "commit", "push", "push">>

\* gitCommitAndPush has returned or thrown
GitCallOver == gitLog # <<>> /\ pc \in {"pushed", "rejected", "done"}

\* C20: the git commands of a call are, in this order, git add of the project
\* file, git add of browse.html, one git commit, git push origin main and, only
\* after that push failed, one git push origin master; nothing is pushed unless
\* the commit succeeded, the commit is never repeated, and a call that is over
\* has made both git add calls, one commit and at most two pushes.
C20_StageCommitPush ==
    /\ Len(gitLog) <= 5
    /\ \A i \in DOMAIN gitLog : gitLog[i].cmd = GitOrder[i]
    /\ Adds = [i \in 1..Len(Adds) |->
                  GitCmd("add", FilesToAdd(filename)[i], Adds[i].ok)]
    /\ Pushes # <<>> =>
          /\ Commits[1].ok
          /\ Pushes[1].what = <<"origin", "main">>
    /\ Len(Pushes) = 2 =>
          /\ ~Pushes[1].ok
          /\ Pushes[2].what = <<"origin", "master">>
    /\ GitCallOver =>
          /\ Len(Adds) = 2 /\ Len(Commits) = 1
          /\ ~Commits[1].ok => (Pushes = <<>> /\ caught = CommitFailed)
          /\ Commits[1].ok => Pushes # <<>>
          /\ (Pushes # <<>> /\ ~Pushes[Len(Pushes)].ok) => Len(Pushes) = 2

\* a call has ended on its failed commit, after both git add calls and
\* without a push
C20_Witness ==
    /\ pc = "rejected" /\ caught = CommitFailed
    /\ Len(gitLog) = 3 /\ gitLog[1].ok /\ gitLog[2].ok
    /\ gitLog[3].cmd = "commit" /\ ~gitLog[3].ok

(***************************************************************************)
(* A run under --no-push (specification Spec)                              *)
(***************************************************************************)
\* the run has passed the publish step, which --no-push made it skip
PublishSkipped ==
    /\ ~options.push /\ ~options.dryRun /\ error = <<>>
    /\ pc \in {"skipped", "done"}

\* C21: under --no-push no git command is ever issued and gitCommitAndPush
\* neither returns nor throws; a run that is not a dry run and meets no error
\* has, when it reaches the publish step, written the project page and the
\* spliced gallery page, by these two writes and no other, and it ends with
\* the success summary and exit status 0.
C21_NoPushSkipsPublish ==
    /\ pc # "idle" /\ ~options.push =>
          /\ gitLog = <<>> /\ caught = <<>>
          /\ StageOf(pc) = 10 => pc = "skipped"
    /\ PublishSkipped =>
          /\ fsLog = << <<"projects/">> \o filename, <<"browse.html">> >>
          /\ filename \in DOMAIN projects
          /\ projects[filename] = GenerateProjectHtml(projectData)
          /\ browseContent # <<>> /\ browse # browseContent
          /\ pc = "done" =>
                /\ exitCode = 0
                /\ console[Len(console)] = "Project added successfully!"
                /\ console[Len(console) - 1] = "Skipped git push (--no-push flag)"

\* a run under --no-push has ended with both files written and git untouched
C21_Witness ==
    /\ PublishSkipped /\ pc = "done" /\ exitCode = 0
    /\ Len(fsLog) = 2 /\ gitLog = <<>>
    /\ filename \in DOMAIN projects

(***************************************************************************)
(* The add command run again and again on one checkout (specification      *)
(* SpecRuns): projects/ and browse.html are what the run before left       *)
(***************************************************************************)
MaxRuns == 3

\* runs without --number, the publish step left out
RunOptions == {[NoOptions EXCEPT !.push = FALSE, !.dryRun = d] : d \in BOOLEAN}

\* the repository is found or is not; its other resources are there
RunOutcomes ==
    {up \in Outcomes : up.readme /\ up.packageJson /\ up.requirements /\ up.languages}

\* what a run that has ended did: ret.v keeps one such record for each
\* process that has exited, in order
EndedRun ==
    [dryRun |-> options.dryRun,
     projectNumber |-> projectNumber,
     projectData |-> projectData,
     filename |-> filename,
     wrote |-> fsLog # <<>>,
     spliced |-> Len(fsLog) = 2]

\* the process has exited and the command is typed again: a new process,
\* the files of the checkout as they are
Again ==
    /\ pc = "done"
    /\ Len(ret.v) + 1 < MaxRuns
    /\ ret' = Returned(Append(ret.v, EndedRun))
    /\ pc' = "idle"
    /\ githubUrl' = <<>>
    /\ options' = NoOptions
    /\ repoRef' = [owner |-> <<>>, repo |-> <<>>]
    /\ repoData' = NoRepoData
    /\ readmeContent' = NoReadmeContent
    /\ techStack' = <<>>
    /\ projectNumber' = <<>>
    /\ projectData' = NoProjectData
    /\ filename' = <<>>
    /\ browseContent' = <<>>
    /\ fsLog' = <<>>
    /\ netLog' = <<>>
    /\ gitLog' = <<>>
    /\ console' = <<>>
    /\ error' = <<>>
    /\ caught' = <<>>
    /\ exitCode' = -1
    /\ UNCHANGED <<projects, browse, now, arg>>

NextRuns ==
    \/ \E opts \in RunOptions :
          Add(Https \o <<"github.com", "/", "a", "/", "b", ".git">>, opts)
    \/ ParseUrl
    \/ \E up \in RunOutcomes : Fetch(up)
    \/ AnalyzeReadme
    \/ DetectStack
    \/ DetermineNumber
    \/ \E title \in Titles : Prompt(title, <<>>, <<>>)
    \/ Generate
    \/ Preview
    \/ WriteProjectFile
    \/ UpdateBrowseHtml
    \/ Summary
    \/ Catch
    \/ Again

SpecRuns == Init /\ [][NextRuns]_vars

\* the runs so far, the one under way last
Runs == Append(ret.v, EndedRun)

\* the runs whose updateBrowseHtml wrote the gallery page, in order
Inserted == SelectSeq(Runs, LAMBDA r : r.spliced)

\* the card snippets of these runs one after the other
RECURSIVE CardsOf(_)
CardsOf(runs) ==
    IF runs = <<>> THEN <<>>
    ELSE GenerateProjectCard(runs[1].projectData, runs[1].filename) \o CardsOf(Tail(runs))

\* text occurs in page
Occurs(text, page) ==
    \E p \in 1..(Len(page) - Len(text) + 1) :
        /\ page[p + Len(text) - 1] = text[Len(text)]
        /\ page[p] = text[1]
        /\ SubSeq(page, p, p + Len(text) - 1) = text

\* the closing tags and the comment updateBrowseHtml puts after the card
ClosingTags == Replacement(<<>>)

\* C22: insertion into the gallery page can be repeated. A page written by
\* updateBrowseHtml from a page that matched insertPattern matches
\* insertPattern again, no updateBrowseHtml after a successful one throws the
\* insertion point error, and after k insertions the page holds the k card
\* snippets whole, in the order of insertion, the newest one directly before
\* the closing tags of the section and the Professional Experience comment.
C22_InsertionRepeatable ==
    /\ (UpdateBrowseHtmlDone /\ error = <<>>
          /\ FirstMatch(browseContent, "insertPattern").from # 0)
       => FirstMatch(browse, "insertPattern").from # 0
    /\ (\E i \in DOMAIN ret.v : ret.v[i].spliced) => error # InsertionPointError
    /\ Inserted # <<>> => Occurs(CardsOf(Inserted) \o ClosingTags, browse)

\* the number a run works with
NumberOfRun(r) == ParseInt(FirstDigits(r.projectNumber))

\* the runs that wrote their project page, in order
Wrote == SelectSeq(Runs, LAMBDA r : r.wrote)

\* the numbers of the project files named by the convention
NumbersIn(files) == {NumberOf(f) : f \in {g \in files : FollowsConvention(g)}}

\* C23: without --number, the number of a run is greater than the number of
\* every day-<n> file in projects/ when the run starts, its filename is the
\* name of none of them, and its write leaves every other file as it is;
\* over the runs the numbers of the files written go up, and a run that
\* writes nothing (a dry run, a run that fails before the write) takes no
\* number: the number of a run is one more than the highest number there was
\* at the start plus the number of runs before it that wrote their page.
C23_FreshNumberEveryRun ==
    /\ []((projectNumber # <<>> /\ fsLog = <<>>) =>
            /\ \A n \in NumbersIn(DOMAIN projects) : n < NumberOfRun(EndedRun)
            /\ filename # <<>> => filename \notin DOMAIN projects
            /\ NumberOfRun(EndedRun)
                  = Max(NumbersIn(DOMAIN ExistingProjects)) + 1
                    + Len(SelectSeq(ret.v, LAMBDA r : r.wrote)))
    /\ [](\A i, j \in DOMAIN Wrote :
            i < j => /\ NumberOfRun(Wrote[i]) < NumberOfRun(Wrote[j])
                     /\ Wrote[i].filename # Wrote[j].filename)
    /\ [][pc = "write" =>
            /\ filename \notin DOMAIN projects
            /\ DOMAIN projects' = DOMAIN projects \cup {filename}
            /\ \A f \in DOMAIN projects : projects'[f] = projects[f]]_vars

\* three runs have ended: one wrote its page, a dry run wrote nothing and
\* the third wrote its page under the next number
C23_Witness ==
    /\ pc = "done" /\ Len(Runs) = 3
    /\ Runs[1].wrote /\ Runs[2].dryRun /\ ~Runs[2].wrote /\ Runs[3].wrote
    /\ NumberOfRun(Runs[2]) = NumberOfRun(Runs[1]) + 1
    /\ NumberOfRun(Runs[3]) = NumberOfRun(Runs[2])
    /\ Runs[1].projectData.title = Runs[3].projectData.title

\* the opening tag of a card generateProjectCard makes, up to the filename
CardOpening == "<div class=\"daily-card featured\" onclick=\"window.location.href='projects/"

\* the opening tag of the card that links to fname
CardLink(fname) == <<CardOpening>> \o fname \o <<"'\">">>

\* the filenames the cards of generateProjectCard in a page link to
LinkedFiles(page) ==
    {SubSeq(page, p + 1, Min({q \in p..Len(page) : page[q] = "'\">"}) - 1) :
        p \in {i \in DOMAIN page : page[i] = CardOpening}}

\* C24: whatever runs came before and however they ended, every card the
\* tool has put into the gallery page links to a project page the tool has
\* written and that is still there as written: the page links to no other
\* file of projects/ through such a card, the gallery page changes only in
\* updateBrowseHtml, which runs after the write of the project page of the
\* same run, and no file leaves projects/.
C24_EveryCardHasItsPage ==
    /\ [](/\ LinkedFiles(browse) = {Inserted[i].filename : i \in DOMAIN Inserted}
          /\ LinkedFiles(browse) \subseteq DOMAIN projects
          /\ \A i \in DOMAIN Inserted :
                /\ Inserted[i].wrote
                /\ Occurs(CardLink(Inserted[i].filename), browse)
                /\ projects[Inserted[i].filename]
                      = GenerateProjectHtml(Inserted[i].projectData))
    /\ [][/\ browse' # browse =>
                /\ pc = "browse"
                /\ fsLog = << <<"projects/">> \o filename >>
                /\ filename \in DOMAIN projects
          /\ DOMAIN projects \subseteq DOMAIN projects']_vars

\* after a dry run, two runs have each written a page and put in a card;
\* both cards are in the gallery page and both pages are in projects/
C24_Witness ==
    /\ pc = "done" /\ Len(Inserted) = 2 /\ Len(Runs) = 3
    /\ \A i \in 1..2 : /\ Inserted[i].filename \in DOMAIN projects
                       /\ Occurs(CardLink(Inserted[i].filename), browse)
    /\ Cardinality(DOMAIN projects) = Cardinality(DOMAIN ExistingProjects) + 2

====
